---------------------------- MODULE Spec2Model ----------------------------
(***************************************************************************)
(* The query-routing gateway of the multi-level summarization system       *)
(* (backend/orchestrator.py): the keyword classifier QueryAnalyzer, the    *)
(* static routing tables of IntelligentRouter and the primary/fallback     *)
(* protocol of IntelligentRouter.route_query, for concurrent requests.     *)
(*                                                                         *)
(* Text is a sequence of one-character strings, so that str.lower() and    *)
(* the substring test `kw in query_lower` are computed character by        *)
(* character.  A confidence is held in tenths (0.6 + n * 0.1 is 6 + n):    *)
(* the code's floats and the tenths order the same way for every match     *)
(* count of every tier.                                                    *)
(***************************************************************************)
EXTENDS Integers, Sequences, FiniteSets

(* Longest question, in phrases, the clients of the classifier send.       *)
MaxPhrases == 2

(***************************************************************************)
(* QueryAnalyzer: the four keyword sets.                                   *)
(***************************************************************************)
SIMPLE_KEYWORDS ==
    { <<"k","e","y"," ","p","o","i","n","t","s">>,
      <<"b","u","l","l","e","t">>,
      <<"c","o","n","c","i","s","e">>,
      <<"s","h","o","r","t">>,
      <<"b","r","i","e","f">>,
      <<"o","v","e","r","v","i","e","w">>,
      <<"m","a","i","n"," ","p","o","i","n","t","s">>,
      <<"h","i","g","h","l","i","g","h","t","s">>,
      <<"s","u","m","m","a","r","y">>,
      <<"g","i","s","t">>,
      <<"e","s","s","e","n","c","e">> }

MODERATE_KEYWORDS ==
    { <<"s","u","m","m","a","r","y">>,
      <<"o","v","e","r","v","i","e","w">>,
      <<"b","r","i","e","f">>,
      <<"d","e","s","c","r","i","b","e">>,
      <<"e","x","p","l","a","i","n">>,
      <<"w","h","a","t"," ","i","s">>,
      <<"t","e","l","l"," ","m","e"," ","a","b","o","u","t">>,
      <<"g","i","v","e"," ","m","e">>,
      <<"p","r","o","v","i","d","e">>,
      <<"o","u","t","l","i","n","e">> }

DETAILED_KEYWORDS ==
    { <<"d","e","t","a","i","l","e","d">>,
      <<"f","u","l","l">>,
      <<"s","e","c","t","i","o","n">>,
      <<"l","a","w">>,
      <<"p","o","l","i","c","y">>,
      <<"r","e","g","u","l","a","t","i","o","n">>,
      <<"s","p","e","c","i","f","i","c">>,
      <<"e","x","a","c","t">>,
      <<"p","r","e","c","i","s","e">>,
      <<"c","o","m","p","l","e","t","e">>,
      <<"e","n","t","i","r","e">>,
      <<"a","l","l">>,
      <<"h","o","w"," ","d","o","e","s">>,
      <<"w","h","a","t"," ","a","r","e"," ","t","h","e">>,
      <<"e","x","p","l","a","i","n"," ","i","n"," ","d","e","t","a","i","l">>,
      <<"s","t","e","p"," ","b","y"," ","s","t","e","p">> }

COMPREHENSIVE_KEYWORDS ==
    { <<"c","o","m","p","r","e","h","e","n","s","i","v","e">>,
      <<"c","o","m","p","l","e","t","e"," ","a","n","a","l","y","s","i","s">>,
      <<"f","u","l","l"," ","d","o","c","u","m","e","n","t">>,
      <<"e","v","e","r","y","t","h","i","n","g">>,
      <<"e","n","t","i","r","e"," ","p","o","l","i","c","y">>,
      <<"a","l","l"," ","a","s","p","e","c","t","s">>,
      <<"t","h","o","r","o","u","g","h">>,
      <<"e","x","h","a","u","s","t","i","v","e">> }

(***************************************************************************)
(* The questions of the clients: up to MaxPhrases phrases of Phrases,      *)
(* joined by one space.  A question is held as the sequence of its phrase  *)
(* numbers; QuestionText gives the string the gateway receives.            *)
(***************************************************************************)
Phrases ==
    << <<"G","i","v","e"," ","m","e"," ","t","h","e"," ","k","e","y"," ","p","o","i","n","t","s">>,
       <<"i","n"," ","s","h","o","r","t">>,
       <<"t","h","e"," ","g","i","s","t">>,
       <<"S","e","c","t","i","o","n"," ","o","f"," ","t","h","e"," ","L","a","w">>,
       <<"a"," ","t","h","o","r","o","u","g","h"," ","a","n","d"," ","e","x","h","a","u","s","t","i","v","e"," ","r","e","v","i","e","w">>,
       <<"c","o","m","p","l","e","t","e"," ","a","n","a","l","y","s","i","s"," ","o","f"," ","e","v","e","r","y","t","h","i","n","g">>,
       <<"h","e","l","l","o"," ","t","h","e","r","e">> >>

(* The questions of the routing demo, each with the server the demo        *)
(* expects it to be routed to.                                             *)
test_queries ==
    << [question |-> <<"W","h","a","t"," ","a","r","e"," ","t","h","e"," ","k","e","y"," ","p","o","i","n","t","s"," ","a","b","o","u","t"," ","J","h","a","r","k","h","a","n","d"," ","p","o","l","i","c","i","e","s","?">>,
        expected_server |-> "server3"],
       [question |-> <<"G","i","v","e"," ","m","e"," ","a"," ","s","u","m","m","a","r","y"," ","o","f"," ","t","h","e"," ","M","S","M","E"," ","p","r","o","m","o","t","i","o","n"," ","p","o","l","i","c","y">>,
        expected_server |-> "server2"],
       [question |-> <<"W","h","a","t"," ","a","r","e"," ","t","h","e"," ","s","p","e","c","i","f","i","c"," ","r","e","q","u","i","r","e","m","e","n","t","s"," ","i","n"," ","s","e","c","t","i","o","n"," ","4",".","2"," ","o","f"," ","t","h","e"," ","i","n","d","u","s","t","r","i","a","l"," ","p","o","l","i","c","y","?">>,
        expected_server |-> "server1"],
       [question |-> <<"P","r","o","v","i","d","e"," ","a"," ","c","o","m","p","r","e","h","e","n","s","i","v","e"," ","a","n","a","l","y","s","i","s"," ","o","f"," ","a","l","l"," ","J","h","a","r","k","h","a","n","d"," ","p","o","l","i","c","i","e","s">>,
        expected_server |-> "server1"] >>

(* A demo question is sent whole: it is the question whose one phrase      *)
(* number lies after those of Phrases.                                     *)
AllPhrases == Phrases \o [i \in DOMAIN test_queries |-> test_queries[i].question]

DemoQuestions == { << Len(Phrases) + i >> : i \in DOMAIN test_queries }

RECURSIVE SeqsUpTo(_, _)
SeqsUpTo(S, n) ==
    IF n = 0 THEN { <<>> }
    ELSE LET shorter == SeqsUpTo(S, n - 1)
         IN  shorter \cup { Append(s, x) : s \in shorter, x \in S }

Questions == SeqsUpTo(DOMAIN Phrases, MaxPhrases)

RECURSIVE QuestionText(_)
QuestionText(q) ==
    IF q = <<>> THEN <<>>
    ELSE IF Len(q) = 1 THEN AllPhrases[q[1]]
    ELSE AllPhrases[q[1]] \o <<" ">> \o QuestionText(Tail(q))

(* str.lower() on one character, then on a string.                         *)
LowerChar(c) ==
    CASE c = "A" -> "a" [] c = "B" -> "b" [] c = "C" -> "c" [] c = "D" -> "d"
      [] c = "E" -> "e" [] c = "F" -> "f" [] c = "G" -> "g" [] c = "H" -> "h"
      [] c = "I" -> "i" [] c = "J" -> "j" [] c = "K" -> "k" [] c = "L" -> "l"
      [] c = "M" -> "m" [] c = "N" -> "n" [] c = "O" -> "o" [] c = "P" -> "p"
      [] c = "Q" -> "q" [] c = "R" -> "r" [] c = "S" -> "s" [] c = "T" -> "t"
      [] c = "U" -> "u" [] c = "V" -> "v" [] c = "W" -> "w" [] c = "X" -> "x"
      [] c = "Y" -> "y" [] c = "Z" -> "z" [] OTHER -> c

lower(s) == [i \in 1..Len(s) |-> LowerChar(s[i])]

(* Python's `kw in s` on strings: kw occurs in s as a substring.           *)
Contains(kw, s) ==
    \E i \in 0..(Len(s) - Len(kw)) : \A j \in 1..Len(kw) : s[i + j] = kw[j]

(* sum(1 for kw in keywords if kw in query_lower)                          *)
Matches(keywords, query_lower) ==
    Cardinality({ kw \in keywords : Contains(kw, query_lower) })

Min(a, b) == IF a <= b THEN a ELSE b

(* Variants of analyze_query with one slip each.                           *)
(* The detailed keywords are tested before the comprehensive ones.         *)
analyze_query_detailed_first(query) ==
    LET query_lower           == lower(query)
        comprehensive_matches == Matches(COMPREHENSIVE_KEYWORDS, query_lower)
        detailed_matches      == Matches(DETAILED_KEYWORDS, query_lower)
        moderate_matches      == Matches(MODERATE_KEYWORDS, query_lower)
        simple_matches        == Matches(SIMPLE_KEYWORDS, query_lower)
    IN  IF detailed_matches > 0
          THEN << "detailed", Min(9, 5 + detailed_matches) >>
        ELSE IF comprehensive_matches > 0
          THEN << "comprehensive", Min(9, 6 + comprehensive_matches) >>
        ELSE IF moderate_matches > 0
          THEN << "moderate", Min(8, 4 + moderate_matches) >>
        ELSE IF simple_matches > 0
          THEN << "simple", Min(8, 3 + simple_matches) >>
        ELSE << "moderate", 3 >>

(* The default confidence is 0.4 instead of 0.3.                           *)
analyze_query_default_04(query) ==
    LET query_lower           == lower(query)
        comprehensive_matches == Matches(COMPREHENSIVE_KEYWORDS, query_lower)
        detailed_matches      == Matches(DETAILED_KEYWORDS, query_lower)
        moderate_matches      == Matches(MODERATE_KEYWORDS, query_lower)
        simple_matches        == Matches(SIMPLE_KEYWORDS, query_lower)
    IN  IF comprehensive_matches > 0
          THEN << "comprehensive", Min(9, 6 + comprehensive_matches) >>
        ELSE IF detailed_matches > 0
          THEN << "detailed", Min(9, 5 + detailed_matches) >>
        ELSE IF moderate_matches > 0
          THEN << "moderate", Min(8, 4 + moderate_matches) >>
        ELSE IF simple_matches > 0
          THEN << "simple", Min(8, 3 + simple_matches) >>
        ELSE << "moderate", 4 >>

(* The confidence of a comprehensive question is not capped.               *)
analyze_query_no_cap(query) ==
    LET query_lower           == lower(query)
        comprehensive_matches == Matches(COMPREHENSIVE_KEYWORDS, query_lower)
        detailed_matches      == Matches(DETAILED_KEYWORDS, query_lower)
        moderate_matches      == Matches(MODERATE_KEYWORDS, query_lower)
        simple_matches        == Matches(SIMPLE_KEYWORDS, query_lower)
    IN  IF comprehensive_matches > 0
          THEN << "comprehensive", 6 + comprehensive_matches >>
        ELSE IF detailed_matches > 0
          THEN << "detailed", Min(9, 5 + detailed_matches) >>
        ELSE IF moderate_matches > 0
          THEN << "moderate", Min(8, 4 + moderate_matches) >>
        ELSE IF simple_matches > 0
          THEN << "simple", Min(8, 3 + simple_matches) >>
        ELSE << "moderate", 3 >>

(***************************************************************************)
(* QueryAnalyzer.analyze_query: <<complexity, confidence in tenths>>.      *)
(***************************************************************************)
analyze_query(query) ==
    LET query_lower           == lower(query)
        comprehensive_matches == Matches(COMPREHENSIVE_KEYWORDS, query_lower)
        detailed_matches      == Matches(DETAILED_KEYWORDS, query_lower)
        moderate_matches      == Matches(MODERATE_KEYWORDS, query_lower)
        simple_matches        == Matches(SIMPLE_KEYWORDS, query_lower)
    IN  IF comprehensive_matches > 0
          THEN << "comprehensive", Min(9, 6 + comprehensive_matches) >>
        ELSE IF detailed_matches > 0
          THEN << "detailed", Min(9, 5 + detailed_matches) >>
        ELSE IF moderate_matches > 0
          THEN << "moderate", Min(8, 4 + moderate_matches) >>
        ELSE IF simple_matches > 0
          THEN << "simple", Min(8, 3 + simple_matches) >>
        ELSE << "moderate", 3 >>

(* analyze_query on the text of every question, computed once.             *)
analysis_of == [q \in Questions \cup DemoQuestions |-> analyze_query(QuestionText(q))]

(***************************************************************************)
(* The legacy gateway (backend/app.py): pick_server, the router of its     *)
(* POST /query.                                                            *)
(***************************************************************************)
PICK_SERVER1_WORDS ==
    { <<"d","e","t","a","i","l","e","d">>,
      <<"f","u","l","l">>,
      <<"s","e","c","t","i","o","n">>,
      <<"l","a","w">>,
      <<"p","o","l","i","c","y">> }

PICK_SERVER2_WORDS ==
    { <<"s","u","m","m","a","r","y">>,
      <<"o","v","e","r","v","i","e","w">>,
      <<"b","r","i","e","f">> }

PICK_SERVER3_WORDS ==
    { <<"k","e","y"," ","p","o","i","n","t","s">>,
      <<"b","u","l","l","e","t">>,
      <<"c","o","n","c","i","s","e">>,
      <<"s","h","o","r","t">> }

(* any(word in q for word in words)                                        *)
Any(words, q) == \E word \in words : Contains(word, q)

pick_server(query) ==
    LET q == lower(query)
    IN  IF Any(PICK_SERVER1_WORDS, q) THEN "server1"
        ELSE IF Any(PICK_SERVER2_WORDS, q) THEN "server2"
        ELSE IF Any(PICK_SERVER3_WORDS, q) THEN "server3"
        ELSE "server1"

(* pick_server on the text of every question, computed once.               *)
pick_server_of == [q \in Questions \cup DemoQuestions |-> pick_server(QuestionText(q))]

(***************************************************************************)
(* ServerManager: the registry of the three nodes, in configured order.    *)
(***************************************************************************)
ServerNames == << "server1", "server2", "server3" >>

servers ==
    [ server1 |-> [name |-> "server1", level |-> 1, max_tokens |-> 1024, top_k |-> 8],
      server2 |-> [name |-> "server2", level |-> 2, max_tokens |-> 512,  top_k |-> 5],
      server3 |-> [name |-> "server3", level |-> 3, max_tokens |-> 256,  top_k |-> 3] ]

(* What a node does with one POST /query, as httpx reports it: a 2xx       *)
(* response with a JSON body, an error status (raise_for_status raises     *)
(* HTTPStatusError), or no response (connect failure or timeout, both      *)
(* httpx.RequestError).                                                    *)
Responses == { "200", "500", "request_error" }

HTTPException(status_code, detail) ==
    [status_code |-> status_code, detail |-> detail]

NoError == HTTPException(0, <<>>)

StatusText(status_code) ==
    CASE status_code = 500 -> "500" [] status_code = 503 -> "503" [] OTHER -> "0"

(* str(e) of an HTTPException: "<status_code>: <detail>".                  *)
str(e) == << StatusText(e.status_code) >> \o e.detail

(* What response.json() raises on a body that is not JSON: no             *)
(* HTTPException, so it has no status_code.                                *)
JSONDecodeError == [detail |-> << "Expecting value" >>]

(* ServerManager.query_server: the answer of the node, or the exception    *)
(* raised to the caller.  A response other than "200", "200_unparsable"    *)
(* and "500" is an httpx.RequestError e, named by its str(e).              *)
query_server(server_name, response) ==
    IF response = "200"
      THEN [raised |-> FALSE, value |-> [answer |-> servers[server_name].name],
            error |-> NoError]
    ELSE IF response = "200_unparsable"
      THEN [raised |-> TRUE, value |-> [answer |-> ""], error |-> JSONDecodeError]
    ELSE IF response = "500"
      THEN [raised |-> TRUE, value |-> [answer |-> ""],
            error |-> HTTPException(500, << "Server", server_name, "returned error" >>)]
    ELSE [raised |-> TRUE, value |-> [answer |-> ""],
          error |-> HTTPException(503, << "Server", server_name, "is unavailable",
                                          response >>)]

(***************************************************************************)
(* IntelligentRouter: the two static tables.                               *)
(***************************************************************************)
(* Variant: the rows of simple and moderate are exchanged.                 *)
select_primary_server_swapped(complexity) ==
    IF complexity = "simple" THEN "server2"
    ELSE IF complexity = "moderate" THEN "server3"
    ELSE IF complexity = "detailed" THEN "server1"
    ELSE "server1"

select_primary_server(complexity) ==
    IF complexity = "simple" THEN "server3"
    ELSE IF complexity = "moderate" THEN "server2"
    ELSE IF complexity = "detailed" THEN "server1"
    ELSE "server1"

(* Variant: the chain of server3 names server3 itself instead of server1.  *)
get_fallback_servers_self(primary_server) ==
    CASE primary_server = "server1" -> << "server2", "server3" >>
      [] primary_server = "server2" -> << "server1", "server3" >>
      [] primary_server = "server3" -> << "server2", "server3" >>
      [] OTHER -> << "server1" >>

get_fallback_servers(primary_server) ==
    CASE primary_server = "server1" -> << "server2", "server3" >>
      [] primary_server = "server2" -> << "server1", "server3" >>
      [] primary_server = "server3" -> << "server2", "server1" >>
      [] OTHER -> << "server1" >>

(* Variant: the answer of the primary is flagged as a fallback.            *)
primary_routing_info_flagged(primary_server, complexity, confidence) ==
    [ primary_server |-> primary_server,
      complexity     |-> complexity,
      confidence     |-> confidence,
      fallback_used  |-> TRUE ]

(* routing_info of an answer of the primary server.                        *)
primary_routing_info(primary_server, complexity, confidence) ==
    [ primary_server |-> primary_server,
      complexity     |-> complexity,
      confidence     |-> confidence,
      fallback_used  |-> FALSE ]

(* Variant: the two server fields are exchanged.                           *)
fallback_routing_info_exchanged(primary_server, fallback_server, complexity, confidence, last_error) ==
    [ primary_server  |-> fallback_server,
      fallback_server |-> primary_server,
      complexity      |-> complexity,
      confidence      |-> confidence,
      fallback_used   |-> TRUE,
      fallback_reason |-> str(last_error) ]

(* routing_info of an answer of a fallback server.                         *)
fallback_routing_info(primary_server, fallback_server, complexity, confidence, last_error) ==
    [ primary_server  |-> primary_server,
      fallback_server |-> fallback_server,
      complexity      |-> complexity,
      confidence      |-> confidence,
      fallback_used   |-> TRUE,
      fallback_reason |-> str(last_error) ]

(* Variant: the last error is left out of the detail.                      *)
all_servers_failed_bare(last_error) ==
    HTTPException(503, << "All servers failed. Last error:" >>)

(* The exception route_query raises when the primary and every fallback    *)
(* failed.                                                                 *)
all_servers_failed(last_error) ==
    HTTPException(503, << "All servers failed. Last error:" >> \o str(last_error))

(***************************************************************************)
(* intelligent_query (POST /query): what the client receives.  The handler *)
(* runs on, without suspension, from the point route_query returns or      *)
(* raises.                                                                 *)
(***************************************************************************)
QueryResponse(answer, citations, used_top_k, prompt) ==
    [answer |-> answer, citations |-> citations, used_top_k |-> used_top_k,
     prompt |-> prompt]

NoResponse == [status_code |-> 0, body |-> [detail |-> <<>>]]

(* The result of route_query is converted: the node's JSON has no          *)
(* citations and no prompt here, the request no top_k.                     *)
intelligent_query_returns(result) ==
    [status_code |-> 200,
     body |-> QueryResponse(result.answer, <<>>,
                            IF "top_k" \in DOMAIN result.routing_info
                              THEN result.routing_info.top_k ELSE 5,
                            "")]

(* except Exception as e: raise HTTPException(status_code=500, ...)        *)
intelligent_query_raises(e) ==
    [status_code |-> 500, body |-> [detail |-> str(e)]]

(***************************************************************************)
(* State.  route[r] holds the parameters and locals of the route_query     *)
(* call serving request r; queries[r] is the list of the downstream        *)
(* POST /query calls that call has issued, in order, each in_flight until  *)
(* the node's response arrives, then returned or raised with the error.    *)
(* artifacts is the set of summary files on disk (L1, L2, L3), ingestion    *)
(* the locals of the pipeline run of the legacy gateway (its POST /ingest) *)
(* and stage_calls the stage requests that run has sent, in order.         *)
(***************************************************************************)
VARIABLES route, queries, artifacts, ingestion, stage_calls, trigger, health, monitor,
          call, server1, manager

routing_vars == << route, queries >>

pipeline_vars == << artifacts, ingestion, stage_calls, trigger >>

vars ==
    << route, queries, artifacts, ingestion, stage_calls, trigger, health, monitor, call,
       server1, manager >>

non_routing_vars == << pipeline_vars, health, monitor, call, server1, manager >>

non_pipeline_vars == << routing_vars, health, monitor, call, server1, manager >>

non_health_vars == << routing_vars, pipeline_vars, monitor, call, server1, manager >>

non_monitor_vars == << routing_vars, pipeline_vars, health, call, server1, manager >>

non_call_vars == << routing_vars, pipeline_vars, health, monitor, server1, manager >>

non_server1_vars == << routing_vars, pipeline_vars, health, monitor, call, manager >>

non_manager_vars == << routing_vars, pipeline_vars, health, monitor, call, server1 >>

Requests == { "r1", "r2" }

NoRoutingInfo == [primary_server |-> "none"]
NoResult == [answer |-> "", routing_info |-> NoRoutingInfo]

Idle ==
    [ pc               |-> "idle",
      question         |-> <<>>,
      use_fallback     |-> TRUE,
      complexity       |-> "none",
      confidence       |-> 0,
      primary_server   |-> "none",
      server_name      |-> "none",
      fallback_servers |-> <<>>,
      fallback_index   |-> 0,
      last_error       |-> NoError,
      result           |-> NoResult,
      exception        |-> NoError,
      response         |-> NoResponse ]

NoData == [status |-> "none"]

IngestIdle ==
    [ pc |-> "idle", data1 |-> NoData, data2 |-> NoData, data3 |-> NoData,
      response |-> NoResponse ]

(* No manual trigger has been handled.                                     *)
NoTrigger == [op |-> "none", server |-> "none", node_status |-> 0,
              response |-> NoResponse]

(* An empty dict.                                                          *)
NoEntries == [name \in {} |-> FALSE]

(* health_check of the gateway before a request arrives.                   *)
HealthIdle ==
    [ pc |-> "idle", index |-> 0, server_status |-> NoEntries, replies |-> NoEntries,
      response |-> [status |-> "none"] ]

(* SystemManager in run_monitoring_loop before the first round: status is  *)
(* not yet bound.                                                          *)
MonitorIdle ==
    [ pc |-> "idle", index |-> 0, healthy_count |-> 0, servers |-> NoEntries,
      status |-> [overall_health |-> "none"] ]

(* No call of query_server has been made.                                  *)
NoCall ==
    [ server_name |-> "none", params |-> [question |-> <<>>], reply |-> "none",
      result |-> [raised |-> FALSE, value |-> [answer |-> ""], error |-> NoError] ]

(* The requests of server1 that call get_rag_pipeline.                     *)
Callers == { "c1", "c2", "c3" }

(* _rag = None                                                             *)
NoInstance == 0

CallerIdle == [pc |-> "idle", value |-> NoInstance, path |-> "none"]

(* The module globals of server1 after import: _initialized = False,       *)
(* _store = None, _rag = None, _init_lock free; instances counts the       *)
(* RAGPipeline objects constructed and obtained holds those returned.      *)
Server1Loaded ==
    [ initialized |-> FALSE, store |-> NoInstance, rag |-> NoInstance,
      init_lock   |-> [locked |-> FALSE, holder |-> "none", waiters |-> << >>],
      instances   |-> 0,
      obtained    |-> {},
      callers     |-> [c \in Callers |-> CallerIdle] ]

(* No method of SystemManager has been called.                             *)
NoManagerCall == [op |-> "none", server_name |-> "none", result |-> FALSE,
                  spawned |-> FALSE]

(* SystemManager.__init__: processes = {}, running = False.  processes is  *)
(* the key list of the dict, in insertion order; started, failed and       *)
(* pending are the lists of the call in progress.                          *)
ManagerNew ==
    [ pc |-> "idle", processes |-> << >>, running |-> FALSE, index |-> 0,
      started |-> << >>, failed |-> << >>, pending |-> << >>, last |-> NoManagerCall ]

Init ==
    /\ manager = ManagerNew
    /\ server1 = Server1Loaded
    /\ call = NoCall
    /\ health = HealthIdle
    /\ monitor = MonitorIdle
    /\ route = [r \in Requests |-> Idle]
    /\ queries = [r \in Requests |-> <<>>]
    /\ artifacts = {}
    /\ ingestion = IngestIdle
    /\ stage_calls = <<>>
    /\ trigger = NoTrigger

(* await self.server_manager.query_server(server, ...): the call is issued *)
Issue(r, server) ==
    queries' = [queries EXCEPT ![r] =
                   Append(@, [server |-> server, state |-> "in_flight", error |-> NoError])]

(* ... and completes: it returned, or raised error.                        *)
Complete(r, state, error) ==
    queries' = [queries EXCEPT ![r] =
                   [@ EXCEPT ![Len(@)] = [@ EXCEPT !.state = state, !.error = error]]]

CompleteAndIssue(r, state, error, server) ==
    queries' = [queries EXCEPT ![r] =
                   Append([@ EXCEPT ![Len(@)] = [@ EXCEPT !.state = state, !.error = error]],
                          [server |-> server, state |-> "in_flight", error |-> NoError])]

(* Variant: a primary that the last health check found down is replaced   *)
(* by its first fallback.                                                  *)
RouteQuery_gated(r, q) ==
    /\ route[r].pc = "idle"
    /\ LET analysis       == analysis_of[q]
           selected       == select_primary_server(analysis[1])
           primary_server == IF health.pc = "done" /\ ~health.response.servers[selected]
                               THEN get_fallback_servers(selected)[1]
                             ELSE selected
       IN  /\ route' = [route EXCEPT ![r] =
                  [@ EXCEPT !.pc = "await_primary",
                            !.question = q,
                            !.use_fallback = TRUE,
                            !.complexity = analysis[1],
                            !.confidence = analysis[2],
                            !.primary_server = primary_server]]
           /\ Issue(r, primary_server)

(* intelligent_query calls route_query(question, use_fallback=True): the   *)
(* question is analysed, the primary chosen and the primary queried.       *)
RouteQuery(r, q) ==
    /\ route[r].pc = "idle"
    /\ LET analysis       == analysis_of[q]
           primary_server == select_primary_server(analysis[1])
       IN  /\ route' = [route EXCEPT ![r] =
                  [@ EXCEPT !.pc = "await_primary",
                            !.question = q,
                            !.use_fallback = TRUE,
                            !.complexity = analysis[1],
                            !.confidence = analysis[2],
                            !.primary_server = primary_server]]
           /\ Issue(r, primary_server)

(* The primary answers: the answer is returned with its routing_info.      *)
PrimaryReturns(r, response) ==
    /\ route[r].pc = "await_primary"
    /\ LET out == query_server(route[r].primary_server, response)
       IN  /\ ~out.raised
           /\ route' = [route EXCEPT ![r] =
                  LET result == [answer |-> out.value.answer,
                                 routing_info |->
                                     primary_routing_info(route[r].primary_server,
                                                          route[r].complexity,
                                                          route[r].confidence)]
                  IN  [@ EXCEPT !.pc = "returned",
                                !.result = result,
                                !.response = intelligent_query_returns(result)]]
           /\ Complete(r, "returned", NoError)

(* Variant: after the primary failed, the whole fallback chain is queried   *)
(* at once.                                                                *)
PrimaryRaises_parallel(r, response) ==
    /\ route[r].pc = "await_primary"
    /\ LET out              == query_server(route[r].primary_server, response)
           fallback_servers == get_fallback_servers(route[r].primary_server)
       IN  /\ out.raised
           /\ route' = [route EXCEPT ![r] =
                  [@ EXCEPT !.pc = "await_fallback",
                            !.fallback_servers = fallback_servers,
                            !.fallback_index = Len(fallback_servers),
                            !.last_error = out.error]]
           /\ queries' = [queries EXCEPT ![r] =
                  [@ EXCEPT ![Len(@)] = [@ EXCEPT !.state = "raised", !.error = out.error]]
                  \o [i \in DOMAIN fallback_servers |->
                         [server |-> fallback_servers[i], state |-> "in_flight",
                          error |-> NoError]]]

(* The primary fails: without use_fallback the exception is re-raised;     *)
(* otherwise the first server of the fallback chain is queried.            *)
PrimaryRaises(r, response) ==
    /\ route[r].pc = "await_primary"
    /\ LET out              == query_server(route[r].primary_server, response)
           fallback_servers == get_fallback_servers(route[r].primary_server)
       IN  /\ out.raised
           /\ IF ~route[r].use_fallback
                THEN /\ route' = [route EXCEPT ![r] =
                            [@ EXCEPT !.pc = "raised",
                                      !.exception = out.error,
                                      !.response = intelligent_query_raises(out.error)]]
                     /\ Complete(r, "raised", out.error)
              ELSE IF fallback_servers = <<>>
                THEN /\ route' = [route EXCEPT ![r] =
                            [@ EXCEPT !.pc = "raised",
                                      !.last_error = out.error,
                                      !.exception = all_servers_failed(out.error),
                                      !.response = intelligent_query_raises(
                                                       all_servers_failed(out.error))]]
                     /\ Complete(r, "raised", out.error)
              ELSE /\ route' = [route EXCEPT ![r] =
                          [@ EXCEPT !.pc = "await_fallback",
                                    !.fallback_servers = fallback_servers,
                                    !.fallback_index = 1,
                                    !.last_error = out.error]]
                   /\ CompleteAndIssue(r, "raised", out.error, fallback_servers[1])

(* A fallback server answers: its answer is returned.                      *)
FallbackReturns(r, response) ==
    /\ route[r].pc = "await_fallback"
    /\ LET fallback_server == route[r].fallback_servers[route[r].fallback_index]
           out             == query_server(fallback_server, response)
       IN  /\ ~out.raised
           /\ route' = [route EXCEPT ![r] =
                  LET result == [answer |-> out.value.answer,
                                 routing_info |->
                                     fallback_routing_info(route[r].primary_server,
                                                           fallback_server,
                                                           route[r].complexity,
                                                           route[r].confidence,
                                                           route[r].last_error)]
                  IN  [@ EXCEPT !.pc = "returned",
                                !.result = result,
                                !.response = intelligent_query_returns(result)]]
           /\ Complete(r, "returned", NoError)

(* Variant: a failed fallback server is queried once more before the loop  *)
(* moves on.                                                               *)
FallbackRaises_retry(r, response) ==
    /\ route[r].pc = "await_fallback"
    /\ LET i               == route[r].fallback_index
           fallback_server == route[r].fallback_servers[i]
           out             == query_server(fallback_server, response)
       IN  /\ out.raised
           /\ IF Len(queries[r]) < 2 * Len(route[r].fallback_servers)
                THEN /\ route' = [route EXCEPT ![r] = [@ EXCEPT !.last_error = out.error]]
                     /\ CompleteAndIssue(r, "raised", out.error, fallback_server)
              ELSE /\ route' = [route EXCEPT ![r] =
                          [@ EXCEPT !.pc = "raised",
                                    !.last_error = out.error,
                                    !.exception = all_servers_failed(out.error),
                                    !.response = intelligent_query_raises(
                                                     all_servers_failed(out.error))]]
                   /\ Complete(r, "raised", out.error)

(* Variant: after the last fallback server failed, the call starts over    *)
(* with its primary.                                                       *)
FallbackRaises_restart(r, response) ==
    /\ route[r].pc = "await_fallback"
    /\ LET i               == route[r].fallback_index
           fallback_server == route[r].fallback_servers[i]
           out             == query_server(fallback_server, response)
       IN  /\ out.raised
           /\ IF i < Len(route[r].fallback_servers)
                THEN /\ route' = [route EXCEPT ![r] =
                            [@ EXCEPT !.fallback_index = i + 1,
                                      !.last_error = out.error]]
                     /\ CompleteAndIssue(r, "raised", out.error, route[r].fallback_servers[i + 1])
              ELSE /\ route' = [route EXCEPT ![r] =
                          [@ EXCEPT !.pc = "await_primary",
                                    !.last_error = out.error]]
                   /\ queries' = [queries EXCEPT ![r] =
                          << [server |-> route[r].primary_server, state |-> "in_flight",
                              error |-> NoError] >>]

(* A fallback server fails: the next one is queried, or, after the last,   *)
(* the all-servers-failed exception is raised.                             *)
FallbackRaises(r, response) ==
    /\ route[r].pc = "await_fallback"
    /\ LET i               == route[r].fallback_index
           fallback_server == route[r].fallback_servers[i]
           out             == query_server(fallback_server, response)
       IN  /\ out.raised
           /\ IF i < Len(route[r].fallback_servers)
                THEN /\ route' = [route EXCEPT ![r] =
                            [@ EXCEPT !.fallback_index = i + 1,
                                      !.last_error = out.error]]
                     /\ CompleteAndIssue(r, "raised", out.error, route[r].fallback_servers[i + 1])
              ELSE /\ route' = [route EXCEPT ![r] =
                          [@ EXCEPT !.pc = "raised",
                                    !.last_error = out.error,
                                    !.exception = all_servers_failed(out.error),
                                    !.response = intelligent_query_raises(
                                                     all_servers_failed(out.error))]]
                   /\ Complete(r, "raised", out.error)

(* The response has been sent to the client; the next request starts from  *)
(* fresh locals.                                                           *)
Respond(r) ==
    /\ route[r].pc \in { "returned", "raised",
                         "direct_returned", "direct_raised", "direct_not_found" }
    /\ route' = [route EXCEPT ![r] = Idle]
    /\ queries' = [queries EXCEPT ![r] = <<>>]

(***************************************************************************)
(* direct_query (POST /query/{server_name}): the client names the node.    *)
(***************************************************************************)
(* The names clients put in the path: the registered ones and one that is  *)
(* not.                                                                    *)
TargetNames == DOMAIN servers \cup { "server9" }

direct_query_not_found(server_name) ==
    [status_code |-> 404, body |-> [detail |-> << "Server", server_name, "not found" >>]]

direct_query_returns(server_name, result) ==
    [status_code |-> 200,
     body |-> QueryResponse(result.answer, <<>>, servers[server_name].top_k, "")]

direct_query_raises(e) ==
    [status_code |-> 500, body |-> [detail |-> str(e)]]

(* Variant: the node is chosen by the classifier, not by the path.         *)
DirectQuery_classified(r, server_name, q) ==
    /\ route[r].pc = "idle"
    /\ IF server_name \notin DOMAIN servers
         THEN /\ route' = [route EXCEPT ![r] =
                     [@ EXCEPT !.pc = "direct_not_found",
                               !.server_name = server_name,
                               !.question = q,
                               !.response = direct_query_not_found(server_name)]]
              /\ UNCHANGED queries
       ELSE /\ route' = [route EXCEPT ![r] =
                   [@ EXCEPT !.pc = "await_direct",
                             !.server_name = server_name,
                             !.question = q]]
            /\ Issue(r, select_primary_server(analysis_of[q][1]))

(* Variant: an unknown name falls back to the first registered node.       *)
DirectQuery_default(r, server_name, q) ==
    /\ route[r].pc = "idle"
    /\ route' = [route EXCEPT ![r] =
           [@ EXCEPT !.pc = "await_direct",
                     !.server_name = server_name,
                     !.question = q]]
    /\ Issue(r, IF server_name \in DOMAIN servers THEN server_name ELSE ServerNames[1])

(* The request arrives: an unknown name is answered 404 at once, a known   *)
(* one is queried.                                                         *)
DirectQuery(r, server_name, q) ==
    /\ route[r].pc = "idle"
    /\ IF server_name \notin DOMAIN servers
         THEN /\ route' = [route EXCEPT ![r] =
                     [@ EXCEPT !.pc = "direct_not_found",
                               !.server_name = server_name,
                               !.question = q,
                               !.response = direct_query_not_found(server_name)]]
              /\ UNCHANGED queries
       ELSE /\ route' = [route EXCEPT ![r] =
                   [@ EXCEPT !.pc = "await_direct",
                             !.server_name = server_name,
                             !.question = q]]
            /\ Issue(r, server_name)

(* The node answers.                                                       *)
DirectReturns(r, response) ==
    /\ route[r].pc = "await_direct"
    /\ LET out == query_server(queries[r][1].server, response)
       IN  /\ ~out.raised
           /\ route' = [route EXCEPT ![r] =
                  [@ EXCEPT !.pc = "direct_returned",
                            !.result = [answer |-> out.value.answer,
                                        routing_info |-> NoRoutingInfo],
                            !.response = direct_query_returns(route[r].server_name,
                                                              out.value)]]
           /\ Complete(r, "returned", NoError)

(* The node fails: the client gets a 500, no other node is tried.          *)
DirectRaises(r, response) ==
    /\ route[r].pc = "await_direct"
    /\ LET out == query_server(queries[r][1].server, response)
       IN  /\ out.raised
           /\ route' = [route EXCEPT ![r] =
                  [@ EXCEPT !.pc = "direct_raised",
                            !.exception = out.error,
                            !.response = direct_query_raises(out.error)]]
           /\ Complete(r, "raised", out.error)

(* The gateway under concurrent requests, each asking a one-phrase (or     *)
(* empty) question.                                                        *)
RouteQuestions == { q \in Questions : Len(q) <= 1 }

Next ==
    \E r \in Requests :
        \/ \E q \in RouteQuestions : RouteQuery(r, q) /\ UNCHANGED non_routing_vars
        \/ \E response \in Responses : PrimaryReturns(r, response) /\ UNCHANGED non_routing_vars
        \/ \E response \in Responses : PrimaryRaises(r, response) /\ UNCHANGED non_routing_vars
        \/ \E response \in Responses : FallbackReturns(r, response) /\ UNCHANGED non_routing_vars
        \/ \E response \in Responses : FallbackRaises(r, response) /\ UNCHANGED non_routing_vars
        \/ Respond(r) /\ UNCHANGED non_routing_vars

Spec == Init /\ [][Next]_vars

(* The awaited query_server call of request r returns or raises.           *)
QueryCompletes(r) ==
    \E response \in Responses :
        \/ PrimaryReturns(r, response) /\ UNCHANGED non_routing_vars
        \/ PrimaryRaises(r, response) /\ UNCHANGED non_routing_vars
        \/ FallbackReturns(r, response) /\ UNCHANGED non_routing_vars
        \/ FallbackRaises(r, response) /\ UNCHANGED non_routing_vars

(* Every downstream query is bounded by self.timeout, so an awaited query  *)
(* returns or raises.                                                      *)
SpecLive == Spec /\ \A r \in Requests : WF_vars(QueryCompletes(r))

(* The classifier under every question of Questions, with all nodes up.    *)
NextAnalyze ==
    \E r \in Requests :
        \/ \E q \in Questions : RouteQuery(r, q) /\ UNCHANGED non_routing_vars
        \/ PrimaryReturns(r, "200") /\ UNCHANGED non_routing_vars
        \/ Respond(r) /\ UNCHANGED non_routing_vars

SpecAnalyze == Init /\ [][NextAnalyze]_vars

(* The gateway under the questions of the routing demo.                    *)
NextDemo ==
    \E r \in Requests :
        \/ \E q \in DemoQuestions : RouteQuery(r, q) /\ UNCHANGED non_routing_vars
        \/ \E response \in Responses : PrimaryReturns(r, response) /\ UNCHANGED non_routing_vars
        \/ \E response \in Responses : PrimaryRaises(r, response) /\ UNCHANGED non_routing_vars
        \/ \E response \in Responses : FallbackReturns(r, response) /\ UNCHANGED non_routing_vars
        \/ \E response \in Responses : FallbackRaises(r, response) /\ UNCHANGED non_routing_vars
        \/ Respond(r) /\ UNCHANGED non_routing_vars

SpecDemo == Init /\ [][NextDemo]_vars

(* The gateway under concurrent direct queries.                            *)
NextDirect ==
    \E r \in Requests :
        \/ \E server_name \in TargetNames, q \in RouteQuestions :
               DirectQuery(r, server_name, q) /\ UNCHANGED non_routing_vars
        \/ \E response \in Responses : DirectReturns(r, response) /\ UNCHANGED non_routing_vars
        \/ \E response \in Responses : DirectRaises(r, response) /\ UNCHANGED non_routing_vars
        \/ Respond(r) /\ UNCHANGED non_routing_vars

SpecDirect == Init /\ [][NextDirect]_vars

(***************************************************************************)
(* The stage endpoints of the nodes.  Each takes the summary files on disk *)
(* and what happens inside the node, and gives the HTTP status, the JSON   *)
(* body and the files on disk afterwards.                                  *)
(***************************************************************************)
(* The most chunks the documents of one ingestion are cut into.            *)
MaxChunks == 2

IngestOutcomes == { "ok", "write_failed", "error" }

SummarizeL1Outcomes == { "ok", "llm_error", "index_error" }

SummarizeL2Outcomes == { "ok", "llm_error" }

StageOk(summary_file, files) ==
    [status_code |-> 200, body |-> [status |-> "ok", summary_file |-> summary_file],
     artifacts |-> files]

StageError(detail, files) ==
    [status_code |-> 500, body |-> [detail |-> detail], artifacts |-> files]

(* server1 POST /ingest: the L1 summary is written unless no document was  *)
(* found or the file could not be written (both answered "ok").            *)
(* vectors_added is what build_index returns for the chunks.               *)
server1_ingest(files, chunks, vectors_added, outcome) ==
    IF outcome = "error"
      THEN StageError("Ingestion failed", files)
    ELSE IF chunks = 0
      THEN [status_code |-> 200,
            body |-> [status |-> "ok", chunks |-> 0, vectors_added |-> 0,
                      summary_file |-> "None",
                      note |-> "No documents found to ingest."],
            artifacts |-> files]
    ELSE IF outcome = "write_failed"
      THEN [status_code |-> 200,
            body |-> [status |-> "ok", chunks |-> chunks,
                      vectors_added |-> vectors_added, summary_file |-> "None"],
            artifacts |-> files]
    ELSE [status_code |-> 200,
          body |-> [status |-> "ok", chunks |-> chunks,
                    vectors_added |-> vectors_added,
                    summary_file |-> "summary_L1.txt"],
          artifacts |-> files \cup { "L1" }]

(* Variant: a failure of the stage removes the summary it was to read.    *)
server2_summarize_l1_rollback(files, outcome) ==
    IF "L1" \notin files
      THEN StageError("L2 summarization failed: 404: No L1 summary found", files)
    ELSE CASE outcome = "ok"          -> StageOk("summary_L2.txt", files \cup { "L2" })
           [] OTHER                   ->
                  StageError("L2 summarization failed", files \ { "L1" })

(* server2 POST /summarize_l1: needs summary_L1.txt; writes summary_L2.txt *)
(* and then indexes it.                                                    *)
server2_summarize_l1(files, outcome) ==
    IF "L1" \notin files
      THEN StageError("L2 summarization failed: 404: No L1 summary found", files)
    ELSE CASE outcome = "ok"          -> StageOk("summary_L2.txt", files \cup { "L2" })
           [] outcome = "index_error" ->
                  StageError("L2 summarization failed", files \cup { "L2" })
           [] OTHER                   -> StageError("L2 summarization failed", files)

(* Variant: the summary is written whether or not its source exists.      *)
server3_summarize_l2_unchecked(files, outcome) ==
    CASE outcome = "ok" -> StageOk("summary_L3.txt", files \cup { "L3" })
      [] OTHER          -> StageError("L3 summarization failed", files)

(* server3 POST /summarize_l2: needs summary_L2.txt; writes summary_L3.txt *)
server3_summarize_l2(files, outcome) ==
    IF "L2" \notin files
      THEN StageError("L3 summarization failed: 404: No L2 summary found", files)
    ELSE CASE outcome = "ok" -> StageOk("summary_L3.txt", files \cup { "L3" })
           [] OTHER          -> StageError("L3 summarization failed", files)

(***************************************************************************)
(* The pipeline run of the legacy gateway (app.py, POST /ingest).          *)
(***************************************************************************)
(* Variant: the requests of the second and third stage are exchanged.      *)
stage_request_exchanged(n) ==
    CASE n = 1 -> [server |-> "server1", op |-> "ingest"]
      [] n = 2 -> [server |-> "server3", op |-> "summarize_l2"]
      [] n = 3 -> [server |-> "server2", op |-> "summarize_l1"]

(* The request of the n-th step.                                           *)
stage_request(n) ==
    CASE n = 1 -> [server |-> "server1", op |-> "ingest"]
      [] n = 2 -> [server |-> "server2", op |-> "summarize_l1"]
      [] n = 3 -> [server |-> "server3", op |-> "summarize_l2"]

(* What the node of a request does with it.                                *)
StageOutcomes(request) ==
    CASE request.op = "ingest"       -> IngestOutcomes
      [] request.op = "summarize_l1" -> SummarizeL1Outcomes
      [] request.op = "summarize_l2" -> SummarizeL2Outcomes

Handle(request, files, chunks, vectors_added, outcome) ==
    CASE request.op = "ingest"       -> server1_ingest(files, chunks, vectors_added, outcome)
      [] request.op = "summarize_l1" -> server2_summarize_l1(files, outcome)
      [] request.op = "summarize_l2" -> server3_summarize_l2(files, outcome)

IngestResponse(files_processed, chunks_added, vectors, message) ==
    [files_processed |-> files_processed, chunks_added |-> chunks_added,
     vectors |-> vectors, message |-> message]

(* data.get(key, 0)                                                        *)
Get(data, key) == IF key \in DOMAIN data THEN data[key] ELSE 0

(* The return statement of ingest.                                         *)
ingest_returns(data1) ==
    [status_code |-> 200,
     body |-> IngestResponse(Get(data1, "files_processed"), Get(data1, "chunks_added"),
                             Get(data1, "vectors"),
                             "Ingestion + L1, L2, L3 summaries complete")]

(* An exception of client.post or resp.json() leaves the handler.          *)
InternalServerError ==
    [status_code |-> 500, body |-> [detail |-> "Internal Server Error"]]

Send(calls, request) ==
    Append(calls, [server |-> request.server, op |-> request.op,
                   state |-> "in_flight"])

Received(state) == [stage_calls EXCEPT ![Len(stage_calls)].state = state]

StateOf(status_code) == IF status_code = 200 THEN "ok" ELSE "failed"

(* POST /ingest arrives: the first stage is requested.                     *)
Ingest ==
    /\ ingestion.pc \in { "idle", "done" }
    /\ ingestion' = [IngestIdle EXCEPT !.pc = "await_1"]
    /\ stage_calls' = Send(<< >>, stage_request(1))
    /\ UNCHANGED << artifacts, trigger >>

(* The node of step n answers (with any status): its JSON body is kept and *)
(* the next step is requested, or, after the third, the response is        *)
(* returned.                                                               *)
IngestStep(n, outcome, chunks, vectors_added) ==
    /\ ingestion.pc = (CASE n = 1 -> "await_1" [] n = 2 -> "await_2" [] n = 3 -> "await_3")
    /\ outcome \in StageOutcomes(stage_calls[Len(stage_calls)])
    /\ UNCHANGED trigger
    /\ LET answer == Handle(stage_calls[Len(stage_calls)], artifacts, chunks,
                            vectors_added, outcome)
           data1  == IF n = 1 THEN answer.body ELSE ingestion.data1
       IN  /\ artifacts' = answer.artifacts
           /\ IF n = 1
                THEN /\ ingestion' = [ingestion EXCEPT !.pc = "await_2",
                                                       !.data1 = answer.body]
                     /\ stage_calls' = Send(Received(StateOf(answer.status_code)),
                                            stage_request(2))
              ELSE IF n = 2
                THEN /\ ingestion' = [ingestion EXCEPT !.pc = "await_3",
                                                       !.data2 = answer.body]
                     /\ stage_calls' = Send(Received(StateOf(answer.status_code)),
                                            stage_request(3))
              ELSE /\ ingestion' = [ingestion EXCEPT !.pc = "done",
                                                     !.data3 = answer.body,
                                                     !.response = ingest_returns(data1)]
                   /\ stage_calls' = Received(StateOf(answer.status_code))

(* The node of the awaited step cannot be reached, or its body is not      *)
(* JSON: the exception ends the run.                                       *)
IngestException ==
    /\ ingestion.pc \in { "await_1", "await_2", "await_3" }
    /\ ingestion' = [ingestion EXCEPT !.pc = "done", !.response = InternalServerError]
    /\ stage_calls' = Received("exception")
    /\ UNCHANGED << artifacts, trigger >>

(* The manual triggers POST /summarize_l1 and POST /summarize_l2 of the    *)
(* gateway: one request to the node, whose JSON body is returned as is.    *)
(* return resp.json(): the body of the node under the gateway's own 200.  *)
trigger_returns(op, server, answer) ==
    [op |-> op, server |-> server, node_status |-> answer.status_code,
     response |-> [status_code |-> 200, body |-> answer.body]]

summarize_l1(outcome) ==
    /\ outcome \in SummarizeL1Outcomes
    /\ LET answer == server2_summarize_l1(artifacts, outcome)
       IN  /\ artifacts' = answer.artifacts
           /\ trigger' = trigger_returns("summarize_l1", "server2", answer)
    /\ UNCHANGED << ingestion, stage_calls >>

summarize_l2(outcome) ==
    /\ outcome \in SummarizeL2Outcomes
    /\ LET answer == server3_summarize_l2(artifacts, outcome)
       IN  /\ artifacts' = answer.artifacts
           /\ trigger' = trigger_returns("summarize_l2", "server3", answer)
    /\ UNCHANGED << ingestion, stage_calls >>

Stages == 1..3

AllOutcomes == IngestOutcomes \cup SummarizeL1Outcomes \cup SummarizeL2Outcomes

NextPipeline ==
    \/ Ingest /\ UNCHANGED non_pipeline_vars
    \/ \E n \in Stages, outcome \in AllOutcomes, chunks \in 0..MaxChunks :
           \E vectors_added \in 0..chunks :
               IngestStep(n, outcome, chunks, vectors_added) /\ UNCHANGED non_pipeline_vars
    \/ IngestException /\ UNCHANGED non_pipeline_vars
    \/ \E outcome \in SummarizeL1Outcomes : summarize_l1(outcome) /\ UNCHANGED non_pipeline_vars
    \/ \E outcome \in SummarizeL2Outcomes : summarize_l2(outcome) /\ UNCHANGED non_pipeline_vars

SpecPipeline == Init /\ [][NextPipeline]_vars

(***************************************************************************)
(* server1: get_rag_pipeline, the lazy initialization of the RAG pipeline. *)
(* The globals are rewritten as a whole; each await (the lock, the store)  *)
(* is a point at which the event loop may run another request.             *)
(***************************************************************************)
(* The most RAGPipeline objects constructed.                               *)
MaxInstances == 2

(* _initialized and _rag is not None                                       *)
Ready(s) == s.initialized /\ s.rag # NoInstance

(* return _rag                                                             *)
ReturnsRag(s, c, path) ==
    [s EXCEPT !.callers[c] = [pc |-> "returned", value |-> s.rag, path |-> path],
              !.obtained = @ \cup { s.rag }]

(* Variant: the except branch raises without clearing the globals.        *)
RaisesInitFailed_keep(s, c) ==
    [s EXCEPT !.callers[c] = [pc |-> "raised", value |-> NoInstance, path |-> "raised"]]

(* The except branch: the globals are cleared and HTTPException 500 raised *)
RaisesInitFailed(s, c) ==
    [s EXCEPT !.initialized = FALSE, !.rag = NoInstance, !.store = NoInstance,
              !.callers[c] = [pc |-> "raised", value |-> NoInstance, path |-> "raised"]]

Acquire(s, c) == [s EXCEPT !.init_lock.locked = TRUE, !.init_lock.holder = c]

(* Leaving "async with _init_lock"; the first waiter may then go on.       *)
Release(s) == [s EXCEPT !.init_lock.locked = FALSE, !.init_lock.holder = "none"]

(* Variant: no second test after the lock has been acquired.               *)
UnderLock_no_recheck(s, c, constructors_ok) ==
    IF ~constructors_ok THEN Release(RaisesInitFailed(s, c))
    ELSE [s EXCEPT !.callers[c].pc = "creating_store"]

(* Under the lock, up to "await _create_store_if_missing(...)".            *)
UnderLock(s, c, constructors_ok) ==
    IF Ready(s) THEN Release(ReturnsRag(s, c, "recheck"))
    ELSE IF ~constructors_ok THEN Release(RaisesInitFailed(s, c))
    ELSE [s EXCEPT !.callers[c].pc = "creating_store"]

(* A request calls get_rag_pipeline: the fast path, or the lock is taken   *)
(* if it is free and nobody waits, or the request waits for it.            *)
GetRagPipeline(c, constructors_ok) ==
    /\ server1.callers[c].pc = "idle"
    /\ server1' =
         IF Ready(server1) THEN ReturnsRag(server1, c, "fast")
         ELSE IF server1.init_lock.locked \/ server1.init_lock.waiters # << >>
           THEN [server1 EXCEPT !.callers[c].pc = "waiting",
                                !.init_lock.waiters = Append(@, c)]
         ELSE UnderLock(Acquire(server1, c), c, constructors_ok)

(* The first waiter gets the released lock.                                *)
LockAcquired(c, constructors_ok) ==
    /\ server1.callers[c].pc = "waiting"
    /\ ~server1.init_lock.locked
    /\ server1.init_lock.waiters # << >>
    /\ Head(server1.init_lock.waiters) = c
    /\ server1' =
         UnderLock(Acquire([server1 EXCEPT !.init_lock.waiters = Tail(@)], c),
                   c, constructors_ok)

(* What happens from "await _create_store_if_missing(...)" on: all steps   *)
(* succeed, the store cannot be created, or the store is assigned and      *)
(* RAGPipeline(...) raises.                                                *)
StoreOutcomes == { "ok", "store_error", "rag_error" }

(* _create_store_if_missing returns: the pipeline is built, published and  *)
(* returned; or a step raises.                                             *)
StoreCreated(c, outcome) ==
    /\ server1.callers[c].pc = "creating_store"
    /\ outcome \in StoreOutcomes
    /\ LET instance == server1.instances + 1
       IN  IF outcome = "ok"
             THEN /\ server1.instances < MaxInstances
                  /\ server1' =
                        Release(ReturnsRag([server1 EXCEPT !.store = instance,
                                                           !.rag = instance,
                                                           !.initialized = TRUE,
                                                           !.instances = instance],
                                           c, "initialized"))
           ELSE IF outcome = "rag_error"
             THEN server1' =
                    Release(RaisesInitFailed([server1 EXCEPT !.store = instance], c))
           ELSE server1' = Release(RaisesInitFailed(server1, c))

(* The request that called get_rag_pipeline ends.                          *)
RequestEnds(c) ==
    /\ server1.callers[c].pc \in { "returned", "raised" }
    /\ server1' = [server1 EXCEPT !.callers[c] = CallerIdle]

NextServer1 ==
    \E c \in Callers :
        \/ \E constructors_ok \in BOOLEAN :
               GetRagPipeline(c, constructors_ok) /\ UNCHANGED non_server1_vars
        \/ \E constructors_ok \in BOOLEAN :
               LockAcquired(c, constructors_ok) /\ UNCHANGED non_server1_vars
        \/ \E outcome \in StoreOutcomes :
               StoreCreated(c, outcome) /\ UNCHANGED non_server1_vars
        \/ RequestEnds(c) /\ UNCHANGED non_server1_vars

SpecServer1 == Init /\ [][NextServer1]_vars

(***************************************************************************)
(* SystemManager (manage_system.py): the process table.                    *)
(***************************************************************************)
(* config.dependencies of SystemManager.servers                            *)
dependencies ==
    [ server1      |-> {},
      server2      |-> { "server1" },
      server3      |-> { "server2" },
      orchestrator |-> { "server1", "server2", "server3" } ]

(* for server_name in ["server1", "server2", "server3", "orchestrator"]    *)
start_order == << "server1", "server2", "server3", "orchestrator" >>

Keys(table) == { table[i] : i \in DOMAIN table }

(* del self.processes[server_name]                                         *)
Del(table, server_name) ==
    LET Keep(name) == name # server_name
    IN  SelectSeq(table, Keep)

(* reversed(list)                                                          *)
Reversed(list) == [i \in 1..Len(list) |-> list[Len(list) + 1 - i]]

(* The new process runs, has exited after two seconds, or Popen raised.    *)
StartOutcomes == { "started", "exited", "popen_error" }

(* terminate and wait return, or raise.                                    *)
StopOutcomes == { "stopped", "error" }

(* Variant: the dependencies are not looked at.                            *)
start_server_unchecked(table, server_name, outcome) ==
    IF server_name \notin DOMAIN dependencies
      THEN [processes |-> table, result |-> FALSE, spawned |-> FALSE]
    ELSE IF server_name \in Keys(table)
      THEN [processes |-> table, result |-> TRUE, spawned |-> FALSE]
    ELSE IF outcome = "popen_error"
      THEN [processes |-> table, result |-> FALSE, spawned |-> FALSE]
    ELSE [processes |-> Append(table, server_name), result |-> outcome = "started",
          spawned |-> TRUE]

(* SystemManager.start_server: the table afterwards, the value returned    *)
(* and whether a process was spawned.                                      *)
start_server(table, server_name, outcome) ==
    IF server_name \notin DOMAIN dependencies
      THEN [processes |-> table, result |-> FALSE, spawned |-> FALSE]
    ELSE IF server_name \in Keys(table)
      THEN [processes |-> table, result |-> TRUE, spawned |-> FALSE]
    ELSE IF \E dep \in dependencies[server_name] : dep \notin Keys(table)
      THEN [processes |-> table, result |-> FALSE, spawned |-> FALSE]
    ELSE IF outcome = "popen_error"
      THEN [processes |-> table, result |-> FALSE, spawned |-> FALSE]
    ELSE [processes |-> Append(table, server_name), result |-> outcome = "started",
          spawned |-> TRUE]

(* SystemManager.stop_server                                               *)
stop_server(table, server_name, outcome) ==
    IF server_name \notin Keys(table)
      THEN [processes |-> table, result |-> TRUE]
    ELSE IF outcome = "error"
      THEN [processes |-> table, result |-> FALSE]
    ELSE [processes |-> Del(table, server_name), result |-> TRUE]

ManagerTargets == DOMAIN dependencies \cup { "server9" }

ManagerCall(op, server_name, result, spawned) ==
    [op |-> op, server_name |-> server_name, result |-> result, spawned |-> spawned]

StartServer(server_name, outcome) ==
    /\ manager.pc = "idle"
    /\ LET out == start_server(manager.processes, server_name, outcome)
       IN  manager' = [manager EXCEPT
                          !.processes = out.processes,
                          !.last = ManagerCall("start_server", server_name, out.result,
                                               out.spawned)]

StopServer(server_name, outcome) ==
    /\ manager.pc = "idle"
    /\ LET out == stop_server(manager.processes, server_name, outcome)
       IN  manager' = [manager EXCEPT
                          !.processes = out.processes,
                          !.last = ManagerCall("stop_server", server_name, out.result,
                                               FALSE)]

(* start_all_servers is called: check_dependencies, then the loop.         *)
StartAllServers(dependencies_ok) ==
    /\ manager.pc = "idle"
    /\ manager' =
         IF dependencies_ok
           THEN [manager EXCEPT !.pc = "starting", !.index = 1, !.started = << >>,
                                !.failed = << >>, !.pending = << >>]
         ELSE [manager EXCEPT !.started = << >>, !.failed = << >>,
                              !.last = ManagerCall("start_all_servers", "none", FALSE,
                                                   FALSE)]

(* One iteration of the loop of start_all_servers: the server is started;  *)
(* after the last, running = True; at a failure the loop is left and the   *)
(* started servers are to be stopped in reverse.                           *)
StartAllStep(outcome) ==
    /\ manager.pc = "starting"
    /\ LET server_name == start_order[manager.index]
           out         == start_server(manager.processes, server_name, outcome)
           started     == Append(manager.started, server_name)
       IN  manager' =
             IF out.result
               THEN IF manager.index = Len(start_order)
                      THEN [manager EXCEPT
                               !.pc = "idle", !.index = 0, !.processes = out.processes,
                               !.started = started, !.running = TRUE,
                               !.last = ManagerCall("start_all_servers", "none", TRUE,
                                                    FALSE)]
                    ELSE [manager EXCEPT !.index = @ + 1, !.processes = out.processes,
                                         !.started = started]
             ELSE IF manager.started = << >>
               THEN [manager EXCEPT
                        !.pc = "idle", !.index = 0, !.processes = out.processes,
                        !.failed = << server_name >>,
                        !.last = ManagerCall("start_all_servers", "none", FALSE, FALSE)]
             ELSE [manager EXCEPT
                      !.pc = "rolling_back", !.index = 0, !.processes = out.processes,
                      !.failed = << server_name >>,
                      !.pending = Reversed(manager.started)]

(* for server_name in reversed(started): self.stop_server(server_name)     *)
RollbackStep(outcome) ==
    /\ manager.pc = "rolling_back"
    /\ LET out == stop_server(manager.processes, Head(manager.pending), outcome)
       IN  manager' =
             IF Len(manager.pending) = 1
               THEN [manager EXCEPT
                        !.pc = "idle", !.processes = out.processes, !.pending = << >>,
                        !.last = ManagerCall("start_all_servers", "none", FALSE, FALSE)]
             ELSE [manager EXCEPT !.processes = out.processes, !.pending = Tail(@)]

(* stop_all_servers is called: the keys are listed in reverse.             *)
StopAllServers ==
    /\ manager.pc = "idle"
    /\ manager' =
         IF manager.processes = << >>
           THEN [manager EXCEPT !.running = FALSE,
                                !.last = ManagerCall("stop_all_servers", "none", TRUE,
                                                     FALSE)]
         ELSE [manager EXCEPT !.pc = "stopping",
                              !.pending = Reversed(manager.processes)]

(* One iteration of the loop of stop_all_servers; after the last,          *)
(* running = False.                                                        *)
StopAllStep(outcome) ==
    /\ manager.pc = "stopping"
    /\ LET out == stop_server(manager.processes, Head(manager.pending), outcome)
       IN  manager' =
             IF Len(manager.pending) = 1
               THEN [manager EXCEPT
                        !.pc = "idle", !.processes = out.processes, !.pending = << >>,
                        !.running = FALSE,
                        !.last = ManagerCall("stop_all_servers", "none", TRUE, FALSE)]
             ELSE [manager EXCEPT !.processes = out.processes, !.pending = Tail(@)]

NextManager ==
    \/ \E server_name \in ManagerTargets, outcome \in StartOutcomes :
           StartServer(server_name, outcome) /\ UNCHANGED non_manager_vars
    \/ \E server_name \in ManagerTargets, outcome \in StopOutcomes :
           StopServer(server_name, outcome) /\ UNCHANGED non_manager_vars
    \/ \E dependencies_ok \in BOOLEAN :
           StartAllServers(dependencies_ok) /\ UNCHANGED non_manager_vars
    \/ \E outcome \in StartOutcomes : StartAllStep(outcome) /\ UNCHANGED non_manager_vars
    \/ \E outcome \in StopOutcomes : RollbackStep(outcome) /\ UNCHANGED non_manager_vars
    \/ StopAllServers /\ UNCHANGED non_manager_vars
    \/ \E outcome \in StopOutcomes : StopAllStep(outcome) /\ UNCHANGED non_manager_vars

SpecManager == Init /\ [][NextManager]_vars

(***************************************************************************)
(* One call of ServerManager.query_server with its arguments and what the  *)
(* node does with POST /query.                                             *)
(***************************************************************************)
QueryReplies == { "200", "200_unparsable", "500", "timeout", "connect_error" }

(* The arguments top_k and max_tokens are Optional[int]: None, or a        *)
(* number.  None is kept apart from every number.                          *)
None == -1

TopKs == { None, 0, 2 }

MaxTokens == { None, 0, 128 }

(* Python's `a or b`: b when a is None or 0, else a.                       *)
Or(a, b) == IF a = None \/ a = 0 THEN b ELSE a

(* top_k or server.top_k, max_tokens or server.max_tokens                  *)
query_params(server_name, question, top_k, max_tokens) ==
    [ question          |-> question,
      top_k             |-> Or(top_k, servers[server_name].top_k),
      max_output_tokens |-> Or(max_tokens, servers[server_name].max_tokens) ]

QueryServer(server_name, question, top_k, max_tokens, reply) ==
    call' = [ server_name |-> server_name,
              top_k       |-> top_k,
              max_tokens  |-> max_tokens,
              params      |-> query_params(server_name, question, top_k, max_tokens),
              reply       |-> reply,
              result      |-> query_server(server_name, reply) ]

NextQueryServer ==
    \E server_name \in DOMAIN servers, question \in RouteQuestions, top_k \in TopKs,
       max_tokens \in MaxTokens, reply \in QueryReplies :
        QueryServer(server_name, question, top_k, max_tokens, reply)
            /\ UNCHANGED non_call_vars

SpecQueryServer == Init /\ [][NextQueryServer]_vars

(***************************************************************************)
(* Health.  What a node does with GET /health: it answers 200 with its     *)
(* JSON payload, 200 with a body that is not JSON, a non-200 status, or    *)
(* the request raises (timeout, connection refused).                       *)
(***************************************************************************)
HealthReplies == { "200", "200_unparsable", "500", "timeout", "connect_error" }

RequestRaises(reply) == reply \in { "timeout", "connect_error" }

status_code_of(reply) == IF reply \in { "200", "200_unparsable" } THEN 200 ELSE 500

(* dict[key] = value                                                       *)
Put(dict, key, value) ==
    [k \in DOMAIN dict \cup { key } |-> IF k = key THEN value ELSE dict[k]]

(* ServerManager.check_server_health: the body is never read.              *)
check_server_health(server_name, reply) ==
    IF server_name \notin DOMAIN servers \/ RequestRaises(reply)
      THEN FALSE
    ELSE status_code_of(reply) = 200

(* The return statement of health_check.                                   *)
health_check_returns(server_status) ==
    LET healthy_servers == Cardinality({ n \in DOMAIN server_status : server_status[n] })
        total_servers   == Cardinality(DOMAIN server_status)
    IN  [ status        |-> IF healthy_servers > 0 THEN "healthy" ELSE "degraded",
          orchestrator  |-> "ok",
          servers       |-> server_status,
          healthy_count |-> healthy_servers,
          total_count   |-> total_servers ]

(* GET /health arrives at the gateway: server_status = {} and the first    *)
(* node of server_manager.servers is polled.                               *)
HealthCheck ==
    /\ health.pc \in { "idle", "done" }
    /\ health' = [HealthIdle EXCEPT !.pc = "polling", !.index = 1]

(* Variant: a poll that raised leaves no entry.                            *)
HealthPoll_skip_raised(reply) ==
    /\ health.pc = "polling"
    /\ LET server_name   == ServerNames[health.index]
           server_status == IF RequestRaises(reply)
                              THEN health.server_status
                            ELSE Put(health.server_status, server_name,
                                     check_server_health(server_name, reply))
           replies       == Put(health.replies, server_name, reply)
       IN  health' =
             IF health.index = Len(ServerNames)
               THEN [ pc |-> "done", index |-> 0, server_status |-> server_status,
                      replies |-> replies,
                      response |-> health_check_returns(server_status) ]
             ELSE [health EXCEPT !.index = @ + 1, !.server_status = server_status,
                                 !.replies = replies]

(* The awaited check_server_health returns: its result is stored and the   *)
(* next node is polled, or, after the last, the response is returned.      *)
HealthPoll(reply) ==
    /\ health.pc = "polling"
    /\ LET server_name   == ServerNames[health.index]
           server_status == Put(health.server_status, server_name,
                                check_server_health(server_name, reply))
           replies       == Put(health.replies, server_name, reply)
       IN  health' =
             IF health.index = Len(ServerNames)
               THEN [ pc |-> "done", index |-> 0, server_status |-> server_status,
                      replies |-> replies,
                      response |-> health_check_returns(server_status) ]
             ELSE [health EXCEPT !.index = @ + 1, !.server_status = server_status,
                                 !.replies = replies]

NextHealth ==
    \/ HealthCheck /\ UNCHANGED non_health_vars
    \/ \E reply \in HealthReplies : HealthPoll(reply) /\ UNCHANGED non_health_vars

SpecHealth == Init /\ [][NextHealth]_vars

(* Every poll has a timeout (self.timeout), so an awaited poll returns.    *)
SpecHealthLive ==
    SpecHealth /\ WF_vars(\E reply \in HealthReplies :
                              HealthPoll(reply) /\ UNCHANGED non_health_vars)

(* Routing of one request while health checks of the gateway run.          *)
NextRouteHealth ==
    \/ \E q \in RouteQuestions : RouteQuery("r1", q) /\ UNCHANGED non_routing_vars
    \/ \E response \in Responses : PrimaryReturns("r1", response) /\ UNCHANGED non_routing_vars
    \/ \E response \in Responses : PrimaryRaises("r1", response) /\ UNCHANGED non_routing_vars
    \/ \E response \in Responses : FallbackReturns("r1", response) /\ UNCHANGED non_routing_vars
    \/ \E response \in Responses : FallbackRaises("r1", response) /\ UNCHANGED non_routing_vars
    \/ Respond("r1") /\ UNCHANGED non_routing_vars
    \/ HealthCheck /\ UNCHANGED non_health_vars
    \/ \E reply \in HealthReplies : HealthPoll(reply) /\ UNCHANGED non_health_vars

SpecRouteHealth == Init /\ [][NextRouteHealth]_vars

(***************************************************************************)
(* SystemManager (manage_system.py): the monitoring loop, entered after    *)
(* start_all_servers has started every server.                             *)
(***************************************************************************)
manager_servers == << "server1", "server2", "server3", "orchestrator" >>

processes == { manager_servers[i] : i \in DOMAIN manager_servers }

(* SystemManager.check_server_health: the payload, or a dict with "error". *)
SystemManager_check_server_health(server_name, reply) ==
    IF server_name \notin { manager_servers[i] : i \in DOMAIN manager_servers }
      THEN [error |-> "Unknown server"]
    ELSE IF RequestRaises(reply)
      THEN [error |-> reply]
    ELSE IF status_code_of(reply) = 200
      THEN IF reply = "200_unparsable" THEN [error |-> "json"] ELSE [status |-> "ok"]
    ELSE [error |-> "HTTP 500"]

(* The end of get_system_status.                                           *)
get_system_status_returns(status_servers, healthy_count) ==
    LET total_count == Len(manager_servers)
    IN  [ servers        |-> status_servers,
          overall_health |-> IF healthy_count = total_count THEN "healthy"
                             ELSE IF healthy_count > 0 THEN "degraded"
                             ELSE "unhealthy",
          healthy_count  |-> healthy_count,
          total_count    |-> total_count ]

(* An iteration of the loop begins: asyncio.run(self.get_system_status()). *)
GetSystemStatus ==
    /\ monitor.pc \in { "idle", "sleeping" }
    /\ monitor' = [monitor EXCEPT !.pc = "polling", !.index = 1, !.healthy_count = 0,
                                  !.servers = NoEntries]

(* The awaited check_server_health returns; after the last server the      *)
(* status is bound in the loop, which then sleeps.                         *)
MonitorPoll(reply) ==
    /\ monitor.pc = "polling"
    /\ LET server_name   == manager_servers[monitor.index]
           server_status == [ name    |-> server_name,
                              running |-> server_name \in processes,
                              health  |-> SystemManager_check_server_health(server_name,
                                                                            reply) ]
           healthy_count == IF server_status.running
                                 /\ "error" \notin DOMAIN server_status.health
                              THEN monitor.healthy_count + 1
                            ELSE monitor.healthy_count
           status_servers == Put(monitor.servers, server_name, server_status)
       IN  monitor' =
             IF monitor.index = Len(manager_servers)
               THEN [ pc |-> "sleeping", index |-> 0, healthy_count |-> healthy_count,
                      servers |-> status_servers,
                      status |-> get_system_status_returns(status_servers, healthy_count) ]
             ELSE [monitor EXCEPT !.index = @ + 1, !.healthy_count = healthy_count,
                                  !.servers = status_servers]

NextMonitor ==
    \/ GetSystemStatus /\ UNCHANGED non_monitor_vars
    \/ \E reply \in HealthReplies : MonitorPoll(reply) /\ UNCHANGED non_monitor_vars

SpecMonitor == Init /\ [][NextMonitor]_vars

(***************************************************************************)
(* Properties of the classifier (under SpecAnalyze).                       *)
(***************************************************************************)
Complexities == { "simple", "moderate", "detailed", "comprehensive" }

KeywordsOf(complexity) ==
    CASE complexity = "comprehensive" -> COMPREHENSIVE_KEYWORDS
      [] complexity = "detailed"      -> DETAILED_KEYWORDS
      [] complexity = "moderate"      -> MODERATE_KEYWORDS
      [] complexity = "simple"        -> SIMPLE_KEYWORDS

(* Specificity of a tier: comprehensive is the most specific.              *)
Specificity(complexity) ==
    CASE complexity = "comprehensive" -> 4
      [] complexity = "detailed"      -> 3
      [] complexity = "moderate"      -> 2
      [] complexity = "simple"        -> 1

(* The number of keywords of each tier occurring in each question,         *)
(* whatever the case of its letters.                                       *)
keyword_matches ==
    [q \in Questions |->
        [c \in Complexities |-> Matches(KeywordsOf(c), lower(QuestionText(q)))]]

TiersMatched(q) == { c \in Complexities : keyword_matches[q][c] > 0 }

Analysed(r) == route[r].pc # "idle"

(* C1: analyze_query returns the most specific tier (comprehensive >       *)
(* detailed > moderate > simple) that has a keyword occurring in the       *)
(* question; a comprehensive or detailed keyword wins over any simple or   *)
(* moderate keyword that also occurs.                                      *)
C1_MostSpecificTierWins ==
    \A r \in Requests :
        (Analysed(r) /\ TiersMatched(route[r].question) # {}) =>
            /\ route[r].complexity \in TiersMatched(route[r].question)
            /\ \A c \in TiersMatched(route[r].question) :
                   Specificity(c) <= Specificity(route[r].complexity)

(* A question with keywords of all four tiers was classified comprehensive *)
(* and one whose only keywords are detailed ones, written with capitals,   *)
(* detailed.                                                               *)
C1_Witness ==
    /\ Analysed("r1") /\ Analysed("r2")
    /\ TiersMatched(route["r1"].question) = Complexities
    /\ route["r1"].complexity = "comprehensive"
    /\ TiersMatched(route["r2"].question) = { "detailed" }
    /\ route["r2"].complexity = "detailed"

(* C2: a question matching no keyword is classified moderate, with a       *)
(* confidence strictly below the confidence of every question that matches *)
(* a keyword.                                                              *)
C2_DefaultBelowEveryMatch ==
    \A r1 \in Requests :
        (Analysed(r1) /\ TiersMatched(route[r1].question) = {}) =>
            /\ route[r1].complexity = "moderate"
            /\ \A r2 \in Requests :
                   (Analysed(r2) /\ TiersMatched(route[r2].question) # {}) =>
                       route[r1].confidence < route[r2].confidence

(* A non-empty question without keyword and a question with one simple     *)
(* keyword (the lowest confidence of a match) have both been classified.   *)
C2_Witness ==
    /\ Analysed("r1") /\ Analysed("r2")
    /\ route["r1"].question # <<>>
    /\ TiersMatched(route["r1"].question) = {}
    /\ TiersMatched(route["r2"].question) = { "simple" }
    /\ keyword_matches[route["r2"].question]["simple"] = 1

(* The number of matched keywords within the winning tier.                 *)
WinningMatches(r) == keyword_matches[route[r].question][route[r].complexity]

(* C3: within a tier the confidence never decreases when the number of     *)
(* matched keywords grows, it grows strictly until it reaches the cap, and *)
(* it never exceeds 0.9: analyze_query never returns 1.0.                  *)
C3_ConfidenceMonotoneCapped ==
    /\ \A r \in Requests : Analysed(r) => route[r].confidence <= 9
    /\ \A r1, r2 \in Requests :
           ( /\ Analysed(r1) /\ Analysed(r2)
             /\ route[r1].complexity = route[r2].complexity
             /\ WinningMatches(r1) < WinningMatches(r2) ) =>
               \/ route[r1].confidence < route[r2].confidence
               \/ /\ route[r1].confidence = route[r2].confidence
                  /\ route[r1].confidence >= 8

(* Two comprehensive questions, with two and with four matched keywords:   *)
(* the second one is at the cap.                                           *)
C3_Witness ==
    /\ Analysed("r1") /\ Analysed("r2")
    /\ route["r1"].complexity = "comprehensive"
    /\ route["r2"].complexity = "comprehensive"
    /\ WinningMatches("r1") = 2 /\ route["r1"].confidence = 8
    /\ WinningMatches("r2") = 4 /\ route["r2"].confidence = 9

(***************************************************************************)
(* Properties of the router (under Spec).                                  *)
(***************************************************************************)
Registered == { ServerNames[i] : i \in DOMAIN ServerNames }

(* The node of a tier level.                                               *)
NodeOfLevel(level) == CHOOSE n \in Registered : servers[n].level = level

(* C4: select_primary_server is the table simple -> tier-3 node (server3), *)
(* moderate -> tier-2 node (server2), detailed and comprehensive -> tier-1 *)
(* node (server1), and the node it returns is registered.                  *)
C4_PrimaryTable ==
    \A r \in Requests :
        Analysed(r) =>
            /\ route[r].primary_server \in Registered
            /\ route[r].complexity = "simple" =>
                   route[r].primary_server = "server3" /\ NodeOfLevel(3) = "server3"
            /\ route[r].complexity = "moderate" =>
                   route[r].primary_server = "server2" /\ NodeOfLevel(2) = "server2"
            /\ route[r].complexity \in { "detailed", "comprehensive" } =>
                   route[r].primary_server = "server1" /\ NodeOfLevel(1) = "server1"

(* A simple question is being served by server3 while a comprehensive one  *)
(* is being served by server1.                                             *)
C4_Witness ==
    /\ route["r1"].pc = "await_primary" /\ route["r1"].complexity = "simple"
    /\ queries["r1"][1].server = "server3"
    /\ route["r2"].pc = "await_primary" /\ route["r2"].complexity = "comprehensive"
    /\ queries["r2"][1].server = "server1"

(* chain holds every registered node other than n exactly once, and not n. *)
CoversOthersOnce(n, chain) ==
    /\ \A i \in DOMAIN chain : chain[i] \in Registered \ { n }
    /\ \A m \in Registered \ { n } :
           Cardinality({ i \in DOMAIN chain : chain[i] = m }) = 1

(* C5: the fallback chain of every registered node holds every other       *)
(* registered node exactly once and never the node itself, and the chain   *)
(* of server1 tries server2 before server3; so does the chain a call       *)
(* walks after its primary failed.                                         *)
C5_FallbackChainCoversOthers ==
    /\ \A n \in Registered : CoversOthersOnce(n, get_fallback_servers(n))
    /\ get_fallback_servers("server1") = << "server2", "server3" >>
    /\ \A r \in Requests :
           route[r].pc = "await_fallback" =>
               CoversOthersOnce(route[r].primary_server, route[r].fallback_servers)

(* Calls walk the chain of server3 and the chain of server1.               *)
C5_Witness ==
    /\ route["r1"].pc = "await_fallback" /\ route["r1"].primary_server = "server3"
    /\ route["r1"].fallback_servers = << "server2", "server1" >>
    /\ route["r2"].pc = "await_fallback" /\ route["r2"].primary_server = "server1"
    /\ route["r2"].fallback_servers = << "server2", "server3" >>

(* The call of request r returned the answer of its primary server.        *)
PrimaryAnswered(r) ==
    /\ route[r].pc = "returned"
    /\ queries[r][1].state = "returned"

(* C6: when the query to the primary succeeds, route_query returns the     *)
(* primary's answer with fallback_used = false and primary_server = the    *)
(* selected primary, and the call has queried no other server.             *)
C6_PrimarySuccessNoFallback ==
    \A r \in Requests :
        PrimaryAnswered(r) =>
            /\ route[r].result.answer = servers[route[r].primary_server].name
            /\ route[r].result.routing_info.fallback_used = FALSE
            /\ route[r].result.routing_info.primary_server = route[r].primary_server
            /\ "fallback_server" \notin DOMAIN route[r].result.routing_info
            /\ Len(queries[r]) = 1
            /\ queries[r][1].server = route[r].primary_server

C6_Witness ==
    /\ PrimaryAnswered("r1")
    /\ route["r1"].result.routing_info.primary_server = "server3"

(* The call of request r returned the answer of the i-th server of the     *)
(* fallback chain.                                                         *)
FallbackAnswered(r, i) ==
    /\ route[r].pc = "returned"
    /\ Len(queries[r]) = i + 1
    /\ queries[r][1].state = "raised"
    /\ queries[r][i + 1].state = "returned"

(* C7: when the primary fails and the first server of its fallback chain   *)
(* succeeds, the result has fallback_used = true, fallback_server = that   *)
(* first fallback, primary_server = the original primary and, as           *)
(* fallback_reason, the failure of the primary.                            *)
C7_FirstFallbackProvenance ==
    \A r \in Requests :
        FallbackAnswered(r, 1) =>
            LET info == route[r].result.routing_info
            IN  /\ info.fallback_used = TRUE
                /\ info.fallback_server = get_fallback_servers(route[r].primary_server)[1]
                /\ info.fallback_server = queries[r][2].server
                /\ route[r].result.answer = servers[info.fallback_server].name
                /\ info.primary_server = route[r].primary_server
                /\ info.primary_server = queries[r][1].server
                /\ info.fallback_reason = str(queries[r][1].error)
                /\ queries[r][1].error # NoError

(* server3 was unavailable and server2 answered.                           *)
C7_Witness ==
    /\ FallbackAnswered("r1", 1)
    /\ queries["r1"][1].server = "server3"
    /\ queries["r1"][1].error.status_code = 503
    /\ route["r1"].result.routing_info.fallback_server = "server2"

(* C8 (as claimed): whenever route_query succeeds through a fallback       *)
(* server, first or second of the chain, fallback_reason is the failure of *)
(* the primary server and fallback_server is the node that answered.       *)
C8_ReasonIsPrimaryFailure ==
    \A r \in Requests :
        \A i \in 1..2 :
            FallbackAnswered(r, i) =>
                /\ route[r].result.routing_info.fallback_server = queries[r][i + 1].server
                /\ route[r].result.routing_info.fallback_reason = str(queries[r][1].error)

(* sub occurs in s as a run of consecutive elements.                       *)
OccursIn(sub, s) ==
    \E i \in 0..(Len(s) - Len(sub)) : \A j \in 1..Len(sub) : s[i + j] = sub[j]

(* The call of request r ended with every server of the chain failed.      *)
AllFailed(r) ==
    /\ route[r].pc = "raised"
    /\ \A i \in DOMAIN queries[r] : queries[r][i].state = "raised"

C10_QueryOrderNoRepeat ==
    \A r \in Requests :
        LET qs    == queries[r]
            order == << route[r].primary_server >> \o
                         get_fallback_servers(route[r].primary_server)
        IN  /\ Analysed(r) <=> qs # <<>>
            /\ Len(qs) <= 3
            /\ Len(qs) <= Len(order)
            /\ \A i \in DOMAIN qs : qs[i].server = order[i]
            /\ \A i, j \in DOMAIN qs : qs[i].server = qs[j].server => i = j
            /\ \A i \in DOMAIN qs : i < Len(qs) => qs[i].state = "raised"
            /\ route[r].pc = "returned" => qs[Len(qs)].state = "returned"

(* A call went through its whole chain and the last server answered.       *)
C10_Witness ==
    /\ FallbackAnswered("r1", 2)
    /\ << queries["r1"][1].server, queries["r1"][2].server, queries["r1"][3].server >>
           = << "server2", "server1", "server3" >>

(* The downstream queries of request r that are awaiting their response.    *)
InFlight(r) == { i \in DOMAIN queries[r] : queries[r][i].state = "in_flight" }

(* C11: the attempts of one route_query call are strictly sequential: at   *)
(* most one of its downstream queries is in flight, and only its latest    *)
(* one, every earlier one having failed; and a step of one call changes    *)
(* nothing of the routing state of another call.                           *)
C11_SequentialFallbackNoSharing ==
    /\ [](\A r \in Requests :
             /\ Cardinality(InFlight(r)) <= 1
             /\ \A i \in DOMAIN queries[r] :
                    i < Len(queries[r]) => queries[r][i].state = "raised")
    /\ [][\A r1, r2 \in Requests :
             (r1 # r2 /\ (route'[r1] # route[r1] \/ queries'[r1] # queries[r1])) =>
                 (route'[r2] = route[r2] /\ queries'[r2] = queries[r2])]_vars

(* The second fallback of one call is in flight after two failures, while  *)
(* another call awaits its primary.                                        *)
C11_Witness ==
    /\ Len(queries["r1"]) = 3 /\ InFlight("r1") = { 3 }
    /\ queries["r1"][1].state = "raised" /\ queries["r1"][2].state = "raised"
    /\ route["r2"].pc = "await_primary" /\ InFlight("r2") = { 1 }

(***************************************************************************)
(* Properties of the POST /query endpoint (under Spec).                    *)
(***************************************************************************)
(* C12 (as claimed): when every node of the chain fails the client of      *)
(* POST /query receives a single 503 error, and the failure of a node is   *)
(* not surfaced when a later node of the chain answered.                   *)
C12_ExhaustedChainIs503 ==
    \A r \in Requests :
        /\ AllFailed(r) => route[r].response.status_code = 503
        /\ route[r].pc = "returned" => route[r].response.status_code = 200

(* C15 (as claimed): every successful response of POST /query carries      *)
(* routing_info with primary_server, complexity, confidence and            *)
(* fallback_used, and with fallback_server exactly when fallback_used.     *)
C15_ResponseCarriesRoutingInfo ==
    \A r \in Requests :
        (route[r].pc = "returned" /\ route[r].response.status_code = 200) =>
            /\ "routing_info" \in DOMAIN route[r].response.body
            /\ { "primary_server", "complexity", "confidence", "fallback_used" }
                   \subseteq DOMAIN route[r].response.body.routing_info
            /\ route[r].response.body.routing_info.fallback_used
                   <=> "fallback_server" \in DOMAIN route[r].response.body.routing_info

(***************************************************************************)
(* Properties of the direct query endpoint (under SpecDirect).             *)
(***************************************************************************)
(* C13: a query with an explicit registered target is sent to that target  *)
(* and to no other node, whatever the question; the classifier is not      *)
(* consulted.                                                              *)
C13_DirectTargetOnly ==
    \A r \in Requests :
        route[r].pc \in { "await_direct", "direct_returned", "direct_raised" } =>
            /\ route[r].server_name \in Registered
            /\ Len(queries[r]) = 1
            /\ queries[r][1].server = route[r].server_name
            /\ route[r].complexity = "none" /\ route[r].primary_server = "none"
            /\ route[r].pc = "direct_returned" =>
                   route[r].response.body.answer = servers[route[r].server_name].name

(* server2 answered a question the classifier would send to server1 and    *)
(* another one it would send to server3.                                   *)
C13_Witness ==
    /\ route["r1"].pc = "direct_returned" /\ route["r1"].server_name = "server2"
    /\ select_primary_server(analysis_of[route["r1"].question][1]) = "server1"
    /\ route["r2"].pc = "direct_returned" /\ route["r2"].server_name = "server2"
    /\ select_primary_server(analysis_of[route["r2"].question][1]) = "server3"

(* C14: a query with a target that is not registered is answered with the  *)
(* not-found error (404) without any query to any node: there is no        *)
(* fallback to a default node.                                             *)
C14_UnknownTargetNotFound ==
    \A r \in Requests :
        /\ (route[r].pc # "idle" /\ route[r].server_name \notin Registered) =>
               /\ route[r].pc = "direct_not_found"
               /\ queries[r] = <<>>
        /\ route[r].pc = "direct_not_found" =>
               /\ route[r].response.status_code = 404
               /\ route[r].server_name \notin Registered

(* server9 was asked for while a registered node was being queried.        *)
C14_Witness ==
    /\ route["r1"].pc = "direct_not_found" /\ route["r1"].server_name = "server9"
    /\ route["r2"].pc = "await_direct"

(***************************************************************************)
(* End-to-end routing of given questions.                                  *)
(***************************************************************************)
KeyPointsQuestion ==
    <<"G","i","v","e"," ","m","e"," ","t","h","e"," ","k","e","y"," ","p","o","i","n","t","s">>

(* C16 (as claimed, under Spec): the question "Give me the key points" is  *)
(* classified simple and gets server3 as primary; if server3 is down and   *)
(* server2 responds, the result has fallback_used = true and               *)
(* fallback_server = server2.                                              *)
C16_KeyPointsToServer3 ==
    \A r \in Requests :
        (Analysed(r) /\ QuestionText(route[r].question) = KeyPointsQuestion) =>
            /\ route[r].complexity = "simple"
            /\ route[r].primary_server = "server3"
            /\ queries[r][1].server = "server3"
            /\ FallbackAnswered(r, 1) =>
                   /\ route[r].result.routing_info.fallback_used = TRUE
                   /\ route[r].result.routing_info.fallback_server = "server2"

(* The server the demo expects for a demo question.                        *)
ExpectedServer(q) == test_queries[q[1] - Len(Phrases)].expected_server

(* C17 (as claimed, under SpecDemo): every question of the routing demo    *)
(* gets as primary the server the demo expects: key points -> server3,     *)
(* summary -> server2, specific requirements in a section -> server1,      *)
(* comprehensive analysis -> server1.                                      *)
C17_DemoExpectations ==
    \A r \in Requests :
        (Analysed(r) /\ route[r].question \in DemoQuestions) =>
            /\ route[r].primary_server = ExpectedServer(route[r].question)
            /\ queries[r][1].server = ExpectedServer(route[r].question)

(***************************************************************************)
(* The pipeline run of the gateway.                                        *)
(***************************************************************************)
ExpectedStages ==
    << [server |-> "server1", op |-> "ingest"],
       [server |-> "server2", op |-> "summarize_l1"],
       [server |-> "server3", op |-> "summarize_l2"] >>

(* C18: a pipeline run requests ingest of server1, then summarize_l1 of    *)
(* server2, then summarize_l2 of server3, in this order; a request is sent *)
(* only when every earlier one has been answered, and no stage is          *)
(* requested twice.                                                        *)
C18_StagesInOrder ==
    /\ Len(stage_calls) <= Len(ExpectedStages)
    /\ \A i \in DOMAIN stage_calls :
           /\ stage_calls[i].server = ExpectedStages[i].server
           /\ stage_calls[i].op = ExpectedStages[i].op
           /\ i < Len(stage_calls) => stage_calls[i].state # "in_flight"
    /\ \A i, j \in DOMAIN stage_calls :
           stage_calls[i].op = stage_calls[j].op => i = j

C18_Witness ==
    /\ ingestion.pc = "done"
    /\ Len(stage_calls) = 3
    /\ \A i \in DOMAIN stage_calls : stage_calls[i].state = "ok"

(* C19: once a stage of a run has failed, no request is sent to the node   *)
(* of a later stage.                                                       *)
C19_FailedStageSkipsRest ==
    \A i \in DOMAIN stage_calls :
        stage_calls[i].state = "failed" => i = Len(stage_calls)

(* C20: the result of POST /ingest says that the pipeline is complete only *)
(* when each of the three stages has succeeded.                            *)
C20_CompleteOnlyWhenAllSucceeded ==
    ( /\ ingestion.pc = "done"
      /\ ingestion.response.status_code = 200
      /\ ingestion.response.body.message = "Ingestion + L1, L2, L3 summaries complete" )
    => /\ Len(stage_calls) = 3
       /\ \A i \in DOMAIN stage_calls : stage_calls[i].state = "ok"

(* C21: the gateway requests a stage from a node only when the stage       *)
(* before it is known to have succeeded: in a run, after an "ok" answer of *)
(* the stage before; for the manual summarize_l1, server2 is contacted     *)
(* only when the L1 summary exists.                                        *)
C21_RequestOnlyAfterSuccess ==
    /\ \A i \in DOMAIN stage_calls : i > 1 => stage_calls[i - 1].state = "ok"
    /\ (trigger.op = "summarize_l1" /\ trigger.server = "server2") => "L1" \in artifacts

(* C22: no step removes a summary: when summarize_l1 or summarize_l2 fails *)
(* the summaries of the earlier stages stay as they are.                   *)
C22_NoRollback == [][artifacts \subseteq artifacts']_vars

C22_Witness ==
    /\ Len(stage_calls) = 3
    /\ stage_calls[3].state = "failed"
    /\ trigger.op = "summarize_l1"
    /\ trigger.node_status = 500
    /\ { "L1", "L2" } \subseteq artifacts

MissingSource(calls, n, files, source) ==
    /\ Len(calls) = n
    /\ calls[n].state = "in_flight"
    /\ source \notin files

(* C29: summary_L2 appears only in a step that found summary_L1, and       *)
(* summary_L3 only in a step that found summary_L2; a stage that does not  *)
(* find its source answers with an error and writes nothing.               *)
C29_SummaryOnlyFromSource ==
    [][ /\ ("L2" \in artifacts' \ artifacts) => "L1" \in artifacts
        /\ ("L3" \in artifacts' \ artifacts) => "L2" \in artifacts
        /\ (trigger' # trigger /\ trigger'.op = "summarize_l1" /\ "L1" \notin artifacts)
               => (trigger'.node_status = 500 /\ artifacts' = artifacts)
        /\ (trigger' # trigger /\ trigger'.op = "summarize_l2" /\ "L2" \notin artifacts)
               => (trigger'.node_status = 500 /\ artifacts' = artifacts)
        /\ (MissingSource(stage_calls, 2, artifacts, "L1") /\ stage_calls' # stage_calls)
               => (stage_calls'[2].state # "ok" /\ artifacts' = artifacts)
        /\ (MissingSource(stage_calls, 3, artifacts, "L2") /\ stage_calls' # stage_calls)
               => (stage_calls'[3].state # "ok" /\ artifacts' = artifacts)
      ]_vars

C29_Witness ==
    /\ artifacts = { "L1", "L2", "L3" }
    /\ trigger.op = "summarize_l2"
    /\ "detail" \in DOMAIN trigger.response.body
    /\ trigger.response.body.detail = "L3 summarization failed: 404: No L2 summary found"

(***************************************************************************)
(* Health.                                                                 *)
(***************************************************************************)
(* C23: the aggregate status of the gateway's health response is healthy   *)
(* when every node is reachable, degraded when some are and unhealthy when *)
(* none is; healthy_count counts the reachable nodes and total_count the   *)
(* registered ones.                                                        *)
C23_AggregateStatus ==
    health.pc = "done" =>
        LET reachable == { n \in Registered : health.response.servers[n] }
        IN  /\ health.response.status =
                   ( IF reachable = Registered THEN "healthy"
                     ELSE IF reachable # {} THEN "degraded"
                     ELSE "unhealthy" )
            /\ health.response.healthy_count = Cardinality(reachable)
            /\ health.response.total_count = Cardinality(Registered)

(* C24: a poll that did not get a 200 answer with a readable body marks    *)
(* the node as not reachable.                                              *)
C24_FailuresAreUnreachable ==
    \A n \in DOMAIN health.replies :
        health.replies[n] # "200" => ~health.server_status[n]

(* C25: a round of polls ends, and its response has one entry for each     *)
(* registered node, FALSE for a node whose poll timed out.                 *)
C25_RoundYieldsAllEntries ==
    /\ [](health.pc = "done" =>
              /\ DOMAIN health.response.servers = Registered
              /\ health.response.total_count = Cardinality(Registered)
              /\ \A n \in Registered :
                     health.replies[n] = "timeout" => ~health.response.servers[n])
    /\ (health.pc = "polling") ~> (health.pc = "done")

C25_Witness ==
    /\ health.pc = "done"
    /\ health.replies["server2"] = "timeout"
    /\ health.response.servers["server1"]
    /\ ~health.response.servers["server2"]

(* C26: while a round of the monitoring loop is in progress the poll of    *)
(* every server has been issued: none waits for the poll of another.       *)
C26_PollsIssuedTogether ==
    monitor.pc = "polling" =>
        \A i \in DOMAIN manager_servers : i <= monitor.index

(* C27: the primary that route_query queries first is the one selected for *)
(* the question, whatever the health checks have found, and a step of      *)
(* routing leaves the state of the health check as it is.                  *)
C27_HealthNeverGatesRouting ==
    /\ [](Analysed("r1") =>
              /\ route["r1"].primary_server =
                     select_primary_server(analysis_of[route["r1"].question][1])
              /\ queries["r1"][1].server = route["r1"].primary_server)
    /\ [][(route' # route \/ queries' # queries) => health' = health]_vars

(* The last health check found the primary down and it is queried.         *)
C27_Witness ==
    /\ health.pc = "done"
    /\ route["r1"].pc = "await_primary"
    /\ ~health.response.servers[route["r1"].primary_server]
    /\ queries["r1"][1].server = route["r1"].primary_server
    /\ queries["r1"][1].state = "in_flight"

(***************************************************************************)
(* The outcomes of query_server.                                           *)
(***************************************************************************)
(* The type of a failure: whether it is an HTTPException, and its status.  *)
FailureType(error) ==
    IF "status_code" \in DOMAIN error THEN << "HTTPException", error.status_code >>
    ELSE << "other", 0 >>

FailureReplies == QueryReplies \ { "200" }

(* C28: a call of query_server returns the node's answer or raises one     *)
(* typed failure; the type tells a timeout from an unreachable node (no    *)
(* other cause gives the same type), and a non-success status of the node  *)
(* is the status of the failure.                                           *)
C28_TypedFailure ==
    call.reply # "none" =>
        /\ ~call.result.raised => call.reply = "200"
        /\ call.result.raised =>
               /\ FailureType(call.result.error)[1] = "HTTPException"
               /\ \A other \in FailureReplies \ { call.reply } :
                      FailureType(query_server(call.server_name, other).error)
                          # FailureType(call.result.error)
               /\ call.reply = "500" => call.result.error.status_code = 500

(***************************************************************************)
(* server1: initialization of the RAG pipeline.                            *)
(***************************************************************************)
Initializing == { c \in Callers : server1.callers[c].pc = "creating_store" }

(* C30: at most one request is inside the initialization at a time, and it *)
(* holds the lock; at most one pipeline is ever constructed, and every     *)
(* request that gets a pipeline gets that one.                             *)
C30_SingleInitialization ==
    /\ Cardinality(Initializing) <= 1
    /\ \A c \in Initializing :
           server1.init_lock.locked /\ server1.init_lock.holder = c
    /\ server1.instances <= 1
    /\ Cardinality(server1.obtained) <= 1
    /\ \A c \in Callers :
           server1.callers[c].pc = "returned" =>
               /\ server1.callers[c].value # NoInstance
               /\ server1.callers[c].value = server1.rag

(* Three requests called before the pipeline existed: one built it, one    *)
(* found it after waiting for the lock, and one is still waiting.          *)
C30_Witness ==
    /\ \E c \in Callers : server1.callers[c].path = "initialized"
    /\ \E c \in Callers : server1.callers[c].path = "recheck"
    /\ \E c \in Callers : server1.callers[c].pc = "waiting"

(* C31: _initialized implies that _rag and _store are set; a call of       *)
(* get_rag_pipeline that fails leaves _initialized False and _rag, _store  *)
(* None, and no call returns a missing pipeline.                           *)
C31_InitializedOnlyWhenComplete ==
    /\ [](server1.initialized =>
              server1.rag # NoInstance /\ server1.store # NoInstance)
    /\ [](\A c \in Callers :
              server1.callers[c].pc = "returned" =>
                  server1.callers[c].value # NoInstance)
    /\ [][\A c \in Callers :
              (server1.callers[c].pc # "raised" /\ server1'.callers[c].pc = "raised") =>
                  /\ ~server1'.initialized
                  /\ server1'.rag = NoInstance
                  /\ server1'.store = NoInstance]_vars

(* An initialization has failed and a later call has initialized.          *)
C31_Witness ==
    /\ \E c \in Callers : server1.callers[c].pc = "raised"
    /\ \E c \in Callers : server1.callers[c].path = "initialized"
    /\ server1.initialized

(***************************************************************************)
(* SystemManager: the process table.                                       *)
(***************************************************************************)
Configured == DOMAIN dependencies

DependenciesOf(server_name) ==
    IF server_name \in Configured THEN dependencies[server_name] ELSE {}

(* A call of start_server has been made in this step.                      *)
StartServerCalled ==
    /\ manager.pc = "idle"
    /\ manager'.pc = "idle"
    /\ manager' # manager
    /\ manager'.last.op = "start_server"

(* C32: start_server spawns a process only for a configured server that is *)
(* not in the table and whose dependencies all are; for an unknown server  *)
(* or a missing dependency it returns False, spawns nothing and leaves the *)
(* table as it is; for a server in the table it returns True and spawns    *)
(* nothing.                                                                *)
C32_StartServerGuards ==
    [][StartServerCalled =>
          LET server_name == manager'.last.server_name
              before      == Keys(manager.processes)
          IN  /\ manager'.last.spawned =>
                     /\ server_name \in Configured
                     /\ server_name \notin before
                     /\ DependenciesOf(server_name) \subseteq before
              /\ (server_name \notin Configured
                      \/ (server_name \notin before
                              /\ ~(DependenciesOf(server_name) \subseteq before))) =>
                     /\ ~manager'.last.result
                     /\ ~manager'.last.spawned
                     /\ manager'.processes = manager.processes
              /\ server_name \in before =>
                     /\ manager'.last.result
                     /\ ~manager'.last.spawned
                     /\ manager'.processes = manager.processes
      ]_vars

(* The orchestrator was refused because server3 is not running.            *)
C32_Witness ==
    /\ manager.last.op = "start_server"
    /\ manager.last.server_name = "orchestrator"
    /\ ~manager.last.result
    /\ ~manager.last.spawned
    /\ manager.processes = << "server1", "server2" >>

(* C33: start_all_servers starts the four servers in dependency order;     *)
(* when a start has failed it returns False with the process table empty   *)
(* and running False; running is True only when all four have started.     *)
C33_StartAllOrNothing ==
    /\ manager.pc \in { "starting", "rolling_back" } =>
           \A j \in DOMAIN manager.started : manager.started[j] = start_order[j]
    /\ (manager.pc = "idle" /\ manager.last.op = "start_all_servers"
            /\ ~manager.last.result /\ manager.failed # << >>) =>
           manager.processes = << >> /\ ~manager.running
    /\ (manager.pc = "idle" /\ manager.last.op = "start_all_servers"
            /\ manager.last.result) =>
           manager.running /\ Keys(manager.processes) = Configured

(* C34: stop_all_servers never stops a server while a server that depends  *)
(* on it is still in the process table; when every stop has succeeded the  *)
(* table is empty and running is False.                                    *)
C34_StopInReverseDependencyOrder ==
    [][manager.pc = "stopping" =>
          LET stopped == Keys(manager.processes) \ Keys(manager'.processes)
          IN  /\ \A server_name \in Keys(manager'.processes) :
                     DependenciesOf(server_name) \cap stopped = {}
              /\ (manager'.pc = "idle" /\ manager'.processes = << >>) =>
                     ~manager'.running
      ]_vars

(* C38: between the calls, every server of the process table has all its   *)
(* dependencies in the table.                                              *)
C38_TableClosedUnderDependencies ==
    manager.pc = "idle" =>
        \A server_name \in Keys(manager.processes) :
            DependenciesOf(server_name) \subseteq Keys(manager.processes)

(***************************************************************************)
(* query_server: the parameters sent to the node.                          *)
(***************************************************************************)
(* C35: query_server sends the caller's top_k and max_output_tokens for    *)
(* every value the caller supplied, and the target node's own default      *)
(* only for a value the caller did not supply.                             *)
C35_SuppliedValuesAreSent ==
    call.server_name # "none" =>
        /\ call.params.top_k =
               IF call.top_k # None THEN call.top_k
               ELSE servers[call.server_name].top_k
        /\ call.params.max_output_tokens =
               IF call.max_tokens # None THEN call.max_tokens
               ELSE servers[call.server_name].max_tokens

(***************************************************************************)
(* The artifacts behind the answers of server1 and server2.                *)
(***************************************************************************)
(* server1 has answered POST /ingest with status ok.                       *)
IngestAnsweredOk ==
    /\ ingestion.pc = "await_2"
    /\ "status" \in DOMAIN ingestion.data1
    /\ ingestion.data1.status = "ok"

(* C36: whenever server1's POST /ingest has answered with status ok,       *)
(* summary_L1.txt exists, so the summarize_l1 that follows does not fail   *)
(* for want of it.                                                         *)
C36_IngestOkLeavesL1 ==
    IngestAnsweredOk => "L1" \in artifacts

(* server2 answers POST /summarize_l1 with an error in this step, to the   *)
(* manual trigger or to the second step of the run.                        *)
SummarizeL1Failed ==
    \/ /\ trigger' # trigger
       /\ trigger'.op = "summarize_l1"
       /\ trigger'.node_status # 200
    \/ /\ ingestion.pc = "await_2"
       /\ ingestion'.pc = "await_3"
       /\ stage_calls'[2].state = "failed"

(* C37: a summarize_l1 that answers with an error has written no           *)
(* summary_L2.txt: the artifacts are as they were before the call.         *)
C37_FailedSummarizeL1WritesNothing ==
    [][SummarizeL1Failed => artifacts' = artifacts]_vars

(***************************************************************************)
(* Termination of route_query.                                             *)
(***************************************************************************)
Awaiting(r) == route[r].pc \in { "await_primary", "await_fallback" }

Terminated(r) == route[r].pc \in { "returned", "raised" }

Answers(r) == { i \in DOMAIN queries[r] : queries[r][i].state = "returned" }

(* C39: every route_query call whose downstream queries return or fail     *)
(* terminates; it ends with the answer of exactly one node, or, after the  *)
(* primary and both fallbacks have failed, with the all-servers-failed     *)
(* error; while it runs it has no more downstream queries than nodes.      *)
C39_RouteQueryTerminates ==
    /\ \A r \in Requests : Awaiting(r) ~> Terminated(r)
    /\ [](\A r \in Requests :
             /\ Len(queries[r]) <= Len(ServerNames)
             /\ route[r].pc = "returned" =>
                    /\ Answers(r) = { Len(queries[r]) }
                    /\ route[r].result.answer # ""
             /\ route[r].pc = "raised" =>
                    /\ Answers(r) = {}
                    /\ { queries[r][i].server : i \in DOMAIN queries[r] } = DOMAIN servers
                    /\ route[r].exception = all_servers_failed(route[r].last_error))

(* One call has ended with the all-servers-failed error after three        *)
(* queries while the other has ended with the answer of its primary.       *)
C39_Witness ==
    /\ route["r1"].pc = "raised" /\ Len(queries["r1"]) = 3
    /\ route["r2"].pc = "returned" /\ Len(queries["r2"]) = 1

(***************************************************************************)
(* The two routers.                                                        *)
(***************************************************************************)
(* C40: for every question, pick_server of the legacy gateway and the      *)
(* IntelligentRouter (analyze_query, then select_primary_server) select    *)
(* the same server, also for a question that matches no keyword.           *)
C40_RoutersAgree ==
    \A r \in Requests :
        Analysed(r) => pick_server_of[route[r].question] = route[r].primary_server

=============================================================================
